---- MODULE Spec2Model ----
(***************************************************************************)
(* Backup orchestration core of GithubBackup-docker: the repository table, *)
(* the backup_job ledger, the per-process APScheduler job store and        *)
(* _scheduled_jobs registry, the scheduled wrapper backup_with_context     *)
(* with its flock-based lock file, the manual and test-backup routes, and  *)
(* BackupService.backup_repository.                                        *)
(*                                                                         *)
(* Time is counted in minutes (datetime.utcnow()).                         *)
(***************************************************************************)
EXTENDS Integers, Sequences, FiniteSets, TLC

\* ------------------------------------------------------------------ bounds
NumRepos == 2       \* repository ids 1..NumRepos
NumLockProcs == 3   \* worker processes contending for one lock file
MaxJobs == 3        \* rows of the backup_job table
MaxTicks == 1       \* clock advances
MaxReq == 1         \* request threads running a manual or test backup
MaxCrashes == 1     \* process crashes
MaxFires == 2       \* fires followed after a trigger is armed
MaxArchives == 3    \* archives in the backup directory before a run
MaxTempDirs == 2    \* temp_ directories in the backup directory
MaxCalls == 2       \* successive calls of _cleanup_temp_directories
NumSettings == 2    \* distinct values of (backup_format, retention_count, github_token)
NumArmThreads == 2  \* threads calling into the job store at once
MaxArmCalls == 3    \* calls those threads make
MaxUrlLen == 3      \* pieces of a stored URL
MaxTokenLen == 2    \* characters of a stored token
MaxDirRuns == 2     \* pipeline runs over the backup tree

Repos == 1..NumRepos
Procs == 1..NumLockProcs
LockProcs == Procs
\* The job store, the registry and the executor are process-local; outside the
\* lock contention the specifications follow one scheduler process (the spec
\* assumes a single active scheduler process per deployment).
MainProcs == {1}
Req == 1..MaxReq

\* ------------------------------------------------------- program constants
RecentMinutes == 2      \* timedelta(minutes=2)
StuckMinutes == 120     \* timedelta(hours=2)
DedupMinutes == 60      \* timedelta(hours=1)
PruneMinutes == 10080   \* timedelta(days=7)
MaxWorkers == 2         \* ThreadPoolExecutor(max_workers=2)
NoValue == 0 - 1        \* a NULL column

\* The clock advances by one of these amounts: past the 2-minute window of
\* the recent-backup check, or past the 2-hour stuck cutoff.
TickSteps == {RecentMinutes + 1, StuckMinutes + 1}

StuckError == "Job stuck for over 2 hours, automatically failed"
RestartError == "Job was running when application restarted"
DuplicateError == "Duplicate job automatically cleaned up"
CloneError == "Git clone failed"

\* ------------------------------------------------------------- data model
\* models.Repository: the columns the orchestration reads.
Row(ex, act, st, iv, un) ==
  [exists |-> ex, is_active |-> act, schedule_type |-> st,
   custom_interval |-> iv, custom_unit |-> un]

NoRow == Row(FALSE, FALSE, "manual", NoValue, "None")

\* models.BackupJob
JobRecord(r, st, started, done, err) ==
  [repository_id |-> r, status |-> st, started_at |-> started,
   created_at |-> started, completed_at |-> done, error_message |-> err]

\* A row removed from backup_job (its id is not reused here).
Deleted == JobRecord(0, "deleted", NoValue, NoValue, "")

\* The schedule fields a form post can carry: schedule_type, custom_interval,
\* custom_unit.  Wildcard string is accepted as custom_unit by the forms.
Sched(st, iv, un) == [schedule_type |-> st, custom_interval |-> iv, custom_unit |-> un]

ScheduleInputs ==
  { Sched("manual", NoValue, "None"),
    Sched("hourly", NoValue, "None"),
    Sched("daily", NoValue, "None"),
    Sched("custom", 2, "days"),
    Sched("custom", 0, "days"),
    Sched("custom", 366, "days"),
    Sched("custom", 53, "weeks"),
    Sched("custom", 13, "months"),
    Sched("custom", 5, "years") }

\* add_repository / edit_repository: validation of the custom interval.
CustomIntervalRejected(s) ==
  /\ s.schedule_type = "custom"
  /\ \/ s.custom_unit = "days" /\ (s.custom_interval < 1 \/ s.custom_interval > 365)
     \/ s.custom_unit = "weeks" /\ (s.custom_interval < 1 \/ s.custom_interval > 52)
     \/ s.custom_unit = "months" /\ (s.custom_interval < 1 \/ s.custom_interval > 12)

\* An APScheduler trigger: a cron expression, or an interval in days.
Trigger(kind, expr, days) == [kind |-> kind, expr |-> expr, days |-> days]
NoTrigger == Trigger("none", "", 0)

\* schedule_backup_job: the trigger built from the repository's schedule
\* (custom_hour and custom_minute are left at their default 02:00).
TriggerFor(row) ==
  LET interval == IF row.custom_interval = NoValue \/ row.custom_interval = 0
                  THEN 1 ELSE row.custom_interval
      unit == IF row.custom_unit \in {"None", ""} THEN "days" ELSE row.custom_unit
  IN CASE row.schedule_type = "hourly" -> Trigger("cron", "minute=0", 0)
       [] row.schedule_type = "daily" -> Trigger("cron", "hour=2,minute=0", 0)
       [] row.schedule_type = "weekly" -> Trigger("cron", "day_of_week=0,hour=2,minute=0", 0)
       [] row.schedule_type = "monthly" -> Trigger("cron", "day=1,hour=2,minute=0", 0)
       [] row.schedule_type = "custom" /\ unit = "days" ->
            IF interval = 1 THEN Trigger("cron", "hour=2,minute=0", 0)
            ELSE Trigger("interval", "days", interval)
       [] row.schedule_type = "custom" /\ unit = "weeks" ->
            IF interval = 1 THEN Trigger("cron", "day_of_week=0,hour=2,minute=0", 0)
            ELSE Trigger("interval", "weeks", 7 * interval)
       [] row.schedule_type = "custom" /\ unit = "months" ->
            IF interval = 1 THEN Trigger("cron", "day=1,hour=2,minute=0", 0)
            ELSE Trigger("interval", "weeks", 7 * 4 * interval)
       [] OTHER -> NoTrigger

\* ------------------------------------------------------------------ state
VARIABLES
  repos,     \* repository table: [Repos -> Row]
  ledger,    \* backup_job table: sequence of JobRecord, indexed by id
  clock,     \* datetime.utcnow(), minutes
  ticks,     \* clock advances so far
  crashes,   \* process crashes so far
  up,        \* [Procs -> BOOLEAN]: the process has imported app.py
  jobs,      \* [Procs -> [Repos -> Trigger]]: job store entries backup_<id>
  tracked,   \* [Procs -> SUBSET Repos]: _scheduled_jobs
  health,    \* [Procs -> BOOLEAN]: job scheduler_health_check is in the store
  lastHealth,\* [Procs -> time]: when scheduler_health_check last ran, NoValue if never
  spc,       \* [Procs -> [Repos -> pc]]: backup_with_context of job backup_<id>
  sfd,       \* [Procs -> [Repos -> inode]]: lock_file of that invocation, 0 closed
  sheld,     \* [Procs -> [Repos -> BOOLEAN]]: that invocation holds the flock
  sjob,      \* [Procs -> [Repos -> id]]: backup_job row that invocation created
  rpc,       \* [Req -> pc]: request thread in manual_backup / test_scheduled_backup
  rproc,     \* [Req -> Procs]: the process serving the request
  rrepo,     \* [Req -> Repos]: the repository of the request
  rjob,      \* [Req -> id]: backup_job row the request's pipeline created
  lockPath,  \* [Repos -> inode]: inode at /tmp/backup_lock_<id>, 0 when absent
  tcfg,      \* schedule columns of the repository handed to schedule_backup_job
  tnow,      \* datetime.now(LOCAL_TZ) when schedule_backup_job runs
  trig,      \* the trigger schedule_backup_job passed to scheduler.add_job
  fires,     \* the instants at which that trigger has fired, in order
  prun,      \* the repository columns and the environment of one backup_repository call
  ppc,       \* position of that call
  pjob,      \* the backup_job row of that call
  perr,      \* str(e) of the exception that call raised
  archives,  \* entries of repo_backup_dir: set of Archive
  plast,     \* repository.last_backup
  pclones,   \* git clone subprocesses that call has started
  pnew,      \* backup_path returned by _create_backup
  premoved,  \* entries logged as "Removed old backup"
  ptemp,     \* temp_clone_dir exists
  texists,   \* repo_backup_dir exists
  tdirs,     \* its temp_ directories: set of TempDir
  tcalls,    \* calls of _cleanup_temp_directories so far
  traised,   \* the last call left with an exception
  settings,  \* [Repos -> Settings]: backup_format, retention_count, github_token columns
  sclosure,  \* [Procs -> [Repos -> Settings]]: `repository` captured by the job's function
  sused,     \* [Procs -> [Repos -> Settings]]: `repo` read by that invocation
  apc,       \* [ArmThreads -> pc]: position inside a call on the job store
  astore,    \* number of jobs with id backup_<id> in the job store
  areg,      \* backup_<id> is in _scheduled_jobs
  acalls,    \* calls started so far
  curl,      \* repository.url: sequence of pieces
  ctoken,    \* repository.github_token
  cclone,    \* clone_url handed to git clone, NoUrl before the call
  drepos,    \* repository rows stored by add_repository, in order
  dfiles,    \* archives under backup_base_dir: set of DirFile
  dremoved   \* archives removed by sweeps, with the repository of the run

vars == <<repos, ledger, clock, ticks, crashes, up, jobs, tracked, health, lastHealth,
          spc, sfd, sheld, sjob, rpc, rproc, rrepo, rjob, lockPath,
          tcfg, tnow, trig, fires,
          prun, ppc, pjob, perr, archives, plast, pclones, pnew, premoved, ptemp,
          texists, tdirs, tcalls, traised,
          settings, sclosure, sused, apc, astore, areg, acalls,
          curl, ctoken, cclone, drepos, dfiles, dremoved>>

storeVars == <<repos, ledger>>
schedVars == <<up, jobs, tracked, health, lastHealth>>
invVars == <<spc, sfd, sheld, sjob, lockPath>>
reqVars == <<rpc, rproc, rrepo, rjob>>
timeVars == <<clock, ticks, crashes>>
cfgVars == <<settings, sclosure, sused>>
coreVars == <<storeVars, schedVars, invVars, reqVars, timeVars, cfgVars>>
trigVars == <<tcfg, tnow, trig, fires>>
pipeVars == <<prun, ppc, pjob, perr, archives, plast, pclones, pnew, premoved, ptemp>>
tempVars == <<texists, tdirs, tcalls, traised>>
raceVars == <<apc, astore, areg, acalls>>
urlVars == <<curl, ctoken, cclone>>
dirVars == <<drepos, dfiles, dremoved>>
moreVars == <<urlVars, dirVars>>
asideVars == <<trigVars, pipeVars, tempVars, raceVars, moreVars>>
detailVars == <<asideVars, cfgVars>>

JobIds == 1..Len(ledger)


\* StartupReap with the cleanup of running rows left out.
StartupReapNone(L) == L

\* ------------------------------------------------------------ job ledger
\* schedule_all_repositories: every row in status running is failed.
StartupReap(L) ==
  [j \in 1..Len(L) |->
     IF L[j].status = "running"
     THEN [L[j] EXCEPT !.status = "failed", !.error_message = RestartError,
                       !.completed_at = clock]
     ELSE L[j]]

\* schedule_all_repositories: of the rows of one repository created within the
\* last hour, the first by created_at is kept and every later one that is
\* pending or running is failed.
IsFirstRecent(L, j) ==
  \A k \in 1..Len(L) :
     (/\ k # j
      /\ L[k].status # "deleted"
      /\ L[k].repository_id = L[j].repository_id
      /\ L[k].created_at > clock - DedupMinutes)
     => (L[j].created_at < L[k].created_at \/ (L[j].created_at = L[k].created_at /\ j < k))

\* StartupDedup failing every later row, whatever its status.
StartupDedupAll(L) ==
  [j \in 1..Len(L) |->
     IF /\ L[j].status # "deleted"
        /\ L[j].created_at > clock - DedupMinutes
        /\ ~IsFirstRecent(L, j)
     THEN [L[j] EXCEPT !.status = "failed", !.error_message = DuplicateError,
                       !.completed_at = clock]
     ELSE L[j]]

StartupDedup(L) ==
  [j \in 1..Len(L) |->
     IF /\ L[j].status \in {"pending", "running"}
        /\ L[j].created_at > clock - DedupMinutes
        /\ ~IsFirstRecent(L, j)
     THEN [L[j] EXCEPT !.status = "failed", !.error_message = DuplicateError,
                       !.completed_at = clock]
     ELSE L[j]]

\* backup_with_context, step 0: rows of repository r running with started_at
\* before the 2-hour cutoff are failed.
IsStuck(L, j, r) ==
  /\ L[j].repository_id = r
  /\ L[j].status = "running"
  /\ L[j].started_at # NoValue
  /\ L[j].started_at < clock - StuckMinutes

\* TriggerReap with the completed_at assignment left out.
TriggerReapNoCompletedAt(L, r) ==
  [j \in 1..Len(L) |->
     IF IsStuck(L, j, r)
     THEN [L[j] EXCEPT !.status = "failed", !.error_message = StuckError]
     ELSE L[j]]

TriggerReap(L, r) ==
  [j \in 1..Len(L) |->
     IF IsStuck(L, j, r)
     THEN [L[j] EXCEPT !.status = "failed", !.error_message = StuckError,
                       !.completed_at = clock]
     ELSE L[j]]

\* backup_with_context, checks 1 and 2: a running row for r, or a row for r
\* started within the last 2 minutes.
HasRunning(L, r) ==
  \E j \in 1..Len(L) : L[j].repository_id = r /\ L[j].status = "running"

\* HasRecent comparing started_at with now instead of the 2-minute cutoff.
HasRecentNoWindow(L, r) ==
  \E j \in 1..Len(L) :
     /\ L[j].repository_id = r
     /\ L[j].status # "deleted"
     /\ L[j].started_at # NoValue
     /\ L[j].started_at > clock

HasRecent(L, r) ==
  \E j \in 1..Len(L) :
     /\ L[j].repository_id = r
     /\ L[j].status # "deleted"
     /\ L[j].started_at # NoValue
     /\ L[j].started_at > clock - RecentMinutes

\* Repository.backup_jobs, cascade='all, delete-orphan': deleting a repository
\* deletes its backup_job rows.
CascadeDelete(L, r) ==
  [j \in 1..Len(L) |-> IF L[j].repository_id = r THEN Deleted ELSE L[j]]

\* scheduler_health_check: failed rows created more than 7 days ago are deleted.
PruneOld(L) ==
  [j \in 1..Len(L) |->
     IF L[j].status = "failed" /\ L[j].created_at < clock - PruneMinutes
     THEN Deleted ELSE L[j]]

\* -------------------------------------------------------------- scheduler
\* schedule_backup_job(repository) in one process, on that process's job
\* store J ([Repos -> Trigger]) and registry T (_scheduled_jobs): the pair
\* <<J', T'>> it leaves.
ScheduleBackupJob(J, T, r, row) ==
  IF ~row.is_active THEN <<J, T>>
  ELSE IF r \in T THEN <<J, T>>                     \* "already being scheduled"
  ELSE LET T1 == T \cup {r}
           \* an existing job is removed and the id dropped from the registry
           J1 == [J EXCEPT ![r] = NoTrigger]
           T2 == IF J[r] # NoTrigger THEN T1 \ {r} ELSE T1
           trigger == TriggerFor(row)
       IN IF trigger = NoTrigger
          THEN <<J1, T2>>                            \* manual, or invalid unit
          ELSE <<[J1 EXCEPT ![r] = trigger], T2>>    \* scheduler.add_job

\* ArmAll leaving the loop after the first repository.
ArmAllFirstOnly(J, T, todo) ==
  IF todo = {} THEN <<J, T>>
  ELSE LET r == CHOOSE x \in todo : \A y \in todo : x <= y
       IN IF repos[r].exists /\ repos[r].is_active
             /\ repos[r].schedule_type # "manual"
          THEN ScheduleBackupJob(J, T, r, repos[r])
          ELSE <<J, T>>

\* schedule_all_repositories, arming part: every backup_ job is removed, the
\* registry is cleared, and schedule_backup_job runs for each active
\* repository whose schedule_type is not manual.
RECURSIVE ArmAll(_, _, _)
ArmAll(J, T, todo) ==
  IF todo = {} THEN <<J, T>>
  ELSE LET r == CHOOSE x \in todo : \A y \in todo : x <= y
           next == IF repos[r].exists /\ repos[r].is_active
                      /\ repos[r].schedule_type # "manual"
                   THEN ScheduleBackupJob(J, T, r, repos[r])
                   ELSE <<J, T>>
       IN ArmAll(next[1], next[2], todo \ {r})

\* The `repository` object the function of job backup_<id> holds after a
\* call that left trigger tr in the store: the object of that call when it
\* added a job, the one held before otherwise.
Captured(before, tr, now) == IF tr # NoTrigger THEN now ELSE before

\* Process p imports app.py: schedule_all_repositories runs once.
Startup(p) ==
  /\ ~up[p]
  /\ LET armed == ArmAll([r \in Repos |-> NoTrigger], {}, Repos)
     IN /\ jobs' = [jobs EXCEPT ![p] = armed[1]]
        /\ tracked' = [tracked EXCEPT ![p] = armed[2]]
        /\ sclosure' = [sclosure EXCEPT ![p] =
                          [r \in Repos |-> Captured(sclosure[p][r], armed[1][r], settings[r])]]
  /\ ledger' = StartupDedup(StartupReap(ledger))
  /\ up' = [up EXCEPT ![p] = TRUE]
  /\ health' = [health EXCEPT ![p] = TRUE]
  /\ UNCHANGED <<repos, lastHealth, invVars, reqVars, timeVars>>
  /\ UNCHANGED <<asideVars, settings, sused>>

\* The id the repository table gives a new row: SQLite's INTEGER PRIMARY KEY
\* without AUTOINCREMENT, the largest id in use plus one.
MaxId(S) == IF S = {} THEN 0 ELSE CHOOSE y \in S : \A z \in S : z <= y

NewRepoId == MaxId({r \in Repos : repos[r].exists}) + 1

\* POST /repositories/add served by process p.
AddRepository(p, s) ==
  /\ up[p]
  /\ NewRepoId \in Repos
  /\ IF CustomIntervalRejected(s)
     THEN UNCHANGED <<repos, jobs, tracked>>
     ELSE LET row == Row(TRUE, TRUE, s.schedule_type, s.custom_interval, s.custom_unit)
              armed == ScheduleBackupJob(jobs[p], tracked[p], NewRepoId, row)
          IN /\ repos' = [repos EXCEPT ![NewRepoId] = row]
             /\ jobs' = [jobs EXCEPT ![p] = armed[1]]
             /\ tracked' = [tracked EXCEPT ![p] = armed[2]]
  /\ sclosure' = [sclosure EXCEPT ![p][NewRepoId] =
                    Captured(@, jobs'[p][NewRepoId], settings[NewRepoId])]
  /\ UNCHANGED <<ledger, up, health, lastHealth, invVars, reqVars, timeVars>>
  /\ UNCHANGED <<asideVars, settings, sused>>

\* POST /repositories/<id>/edit served by process p, the form carrying the
\* schedule s, the active flag and the settings v.
EditRepositoryWith(p, r, s, active, v) ==
  /\ up[p]
  /\ repos[r].exists
  /\ IF CustomIntervalRejected(s)
     THEN UNCHANGED <<repos, jobs, tracked, settings, sclosure>>
     ELSE LET row == Row(TRUE, active, s.schedule_type, s.custom_interval, s.custom_unit)
              removed == [jobs[p] EXCEPT ![r] = NoTrigger]
              armed == IF row.is_active /\ row.schedule_type # "manual"
                       THEN ScheduleBackupJob(removed, tracked[p], r, row)
                       ELSE <<removed, tracked[p]>>
          IN /\ repos' = [repos EXCEPT ![r] = row]
             /\ settings' = [settings EXCEPT ![r] = v]
             /\ jobs' = [jobs EXCEPT ![p] = armed[1]]
             /\ tracked' = [tracked EXCEPT ![p] = armed[2]]
             /\ sclosure' = [sclosure EXCEPT ![p][r] = Captured(@, armed[1][r], v)]
  /\ UNCHANGED <<ledger, up, health, lastHealth, invVars, reqVars, timeVars>>
  /\ UNCHANGED <<asideVars, sused>>

\* The same request with the settings of the form as they are stored.
EditRepository(p, r, s, active) == EditRepositoryWith(p, r, s, active, settings[r])

\* POST /repositories/<id>/delete served by process p.
DeleteRepository(p, r) ==
  /\ up[p]
  /\ repos[r].exists
  /\ jobs' = [jobs EXCEPT ![p][r] = NoTrigger]
  /\ repos' = [repos EXCEPT ![r] = NoRow]
  /\ ledger' = CascadeDelete(ledger, r)
  /\ UNCHANGED <<up, tracked, health, lastHealth, invVars, reqVars, timeVars>>
  /\ UNCHANGED detailVars

\* The job scheduler_health_check of process p runs.  Job ids are the keys of
\* the job store, so its duplicate-id branch is never taken; what remains is
\* the pruning of old failed rows.
HealthCheck(p) ==
  /\ up[p]
  /\ health[p]
  /\ lastHealth[p] # clock
  /\ ledger' = PruneOld(ledger)
  /\ lastHealth' = [lastHealth EXCEPT ![p] = clock]
  /\ UNCHANGED <<repos, up, jobs, tracked, health, invVars, reqVars, timeVars>>
  /\ UNCHANGED detailVars

\* Time passes.
Tick(d) ==
  /\ ticks < MaxTicks
  /\ clock' = clock + d
  /\ ticks' = ticks + 1
  /\ UNCHANGED <<crashes, storeVars, schedVars, invVars, reqVars>>
  /\ UNCHANGED detailVars


\* ------------------------------------------------------------- lock file
\* Inodes in use: at a lock path, or behind an open lock_file.
UsedInodes ==
  {lockPath[r] : r \in Repos} \cup {sfd[p][r] : p \in Procs, r \in Repos}

\* The inode a newly created lock file gets.
FreshInode == CHOOSE i \in 1..(Cardinality(UsedInodes) + 1) : i \notin UsedInodes

\* fcntl.flock(LOCK_EX | LOCK_NB) on inode i fails when another open file
\* description holds a lock on that inode.
LockedByOther(p, r, i) ==
  \E q \in Procs, x \in Repos : <<q, x>> # <<p, r>> /\ sfd[q][x] = i /\ sheld[q][x]

\* ----------------------------------------------------- execution pipeline
\* Invocations that have not yet inserted their backup_job row.
BeforeInsert == {"start", "reap", "check", "open", "flock", "run"}

Unstarted == Cardinality({pr \in Procs \X Repos : spc[pr[1]][pr[2]] \in BeforeInsert})

\* BackupService.backup_repository, lines 24-32: the row inserted and committed.
NewJob(r) == JobRecord(r, "running", clock, NoValue, "")

\* BackupService.backup_repository, lines 84-105: the final status written by
\* the run that owns row j, whatever the row holds by then.
FinalWrite(L, j, ok) ==
  IF L[j].status = "deleted" THEN L      \* the UPDATE matches no row
  ELSE IF ok
  THEN [L EXCEPT ![j].status = "completed", ![j].completed_at = clock]
  ELSE [L EXCEPT ![j].status = "failed", ![j].completed_at = clock,
                 ![j].error_message = CloneError]

\* ------------------------------------------------- scheduled invocation
\* The trigger of job backup_<r> fires in process p.  max_instances=1 skips the
\* fire while an earlier run of the job is in progress; the executor has
\* MaxWorkers threads.
Fire(p, r) ==
  /\ up[p]
  /\ jobs[p][r] # NoTrigger
  /\ spc[p][r] = "idle"
  /\ Cardinality({x \in Repos : spc[p][x] # "idle"}) < MaxWorkers
  /\ Len(ledger) + Unstarted < MaxJobs
  /\ spc' = [spc EXCEPT ![p][r] = "start"]
  /\ UNCHANGED <<storeVars, schedVars, sfd, sheld, sjob, lockPath, reqVars, timeVars>>
  /\ UNCHANGED detailVars

\* QueryGet returning the object the job was armed with.
QueryGetCaptured(captured, stored) == captured

\* line 769: repo = Repository.query.get(repository.id), a SELECT in the
\* session of the new application context; of the captured object only the
\* id is used.
QueryGet(captured, stored) == stored

\* backup_with_context, lines 769-772: the repository is read again by id;
\* `repo` is what goes to backup_repository at line 829.
SRead(p, r) ==
  /\ spc[p][r] = "start"
  /\ spc' = [spc EXCEPT ![p][r] =
               IF repos[r].exists /\ repos[r].is_active THEN "reap" ELSE "idle"]
  /\ sused' = [sused EXCEPT ![p][r] =
                 IF repos[r].exists THEN QueryGet(sclosure[p][r], settings[r]) ELSE NoValue]
  /\ UNCHANGED <<storeVars, schedVars, sfd, sheld, sjob, lockPath, reqVars, timeVars>>
  /\ UNCHANGED <<asideVars, settings, sclosure>>

\* backup_with_context, lines 776-791: the per-trigger reaper pass.
SReap(p, r) ==
  /\ spc[p][r] = "reap"
  /\ ledger' = TriggerReap(ledger, r)
  /\ spc' = [spc EXCEPT ![p][r] = "check"]
  /\ UNCHANGED <<repos, schedVars, sfd, sheld, sjob, lockPath, reqVars, timeVars>>
  /\ UNCHANGED detailVars

\* backup_with_context, lines 793-813: the two admission checks.
SCheck(p, r) ==
  /\ spc[p][r] = "check"
  /\ spc' = [spc EXCEPT ![p][r] =
               IF HasRunning(ledger, r) \/ HasRecent(ledger, r) THEN "idle" ELSE "open"]
  /\ UNCHANGED <<storeVars, schedVars, sfd, sheld, sjob, lockPath, reqVars, timeVars>>
  /\ UNCHANGED detailVars

\* line 823: open(lock_file_path, 'w') opens the file at the path, creating it
\* when the path is absent.
SOpen(p, r) ==
  /\ spc[p][r] = "open"
  /\ LET i == IF lockPath[r] = 0 THEN FreshInode ELSE lockPath[r]
     IN /\ lockPath' = [lockPath EXCEPT ![r] = i]
        /\ sfd' = [sfd EXCEPT ![p][r] = i]
  /\ spc' = [spc EXCEPT ![p][r] = "flock"]
  /\ UNCHANGED <<storeVars, schedVars, sheld, sjob, reqVars, timeVars>>
  /\ UNCHANGED detailVars

\* line 824: the non-blocking exclusive flock; on failure the except branch of
\* lines 839-841 returns and lock_file is closed with the frame.
SFlock(p, r) ==
  /\ spc[p][r] = "flock"
  /\ IF LockedByOther(p, r, sfd[p][r])
     THEN /\ spc' = [spc EXCEPT ![p][r] = "idle"]
          /\ sfd' = [sfd EXCEPT ![p][r] = 0]
          /\ UNCHANGED sheld
     ELSE /\ spc' = [spc EXCEPT ![p][r] = "run"]
          /\ sheld' = [sheld EXCEPT ![p][r] = TRUE]
          /\ UNCHANGED sfd
  /\ UNCHANGED <<storeVars, schedVars, sjob, lockPath, reqVars, timeVars>>
  /\ UNCHANGED detailVars

\* line 829: backup_service.backup_repository(repo) starts; its backup_job row
\* is inserted in status running.
SRun(p, r) ==
  /\ spc[p][r] = "run"
  /\ ledger' = Append(ledger, NewJob(r))
  /\ sjob' = [sjob EXCEPT ![p][r] = Len(ledger) + 1]
  /\ spc' = [spc EXCEPT ![p][r] = "clone"]
  /\ UNCHANGED <<repos, schedVars, sfd, sheld, lockPath, reqVars, timeVars>>
  /\ UNCHANGED detailVars

\* backup_repository, lines 34-138: clone, packaging and retention succeed
\* (ok) or one of them raises; the final status is committed.
SFinish(p, r, ok) ==
  /\ spc[p][r] = "clone"
  /\ ledger' = FinalWrite(ledger, sjob[p][r], ok)
  /\ sjob' = [sjob EXCEPT ![p][r] = 0]
  /\ spc' = [spc EXCEPT ![p][r] = "unlock"]
  /\ UNCHANGED <<repos, schedVars, sfd, sheld, lockPath, reqVars, timeVars>>
  /\ UNCHANGED detailVars

\* line 832: fcntl.flock(LOCK_UN)
SUnlock(p, r) ==
  /\ spc[p][r] = "unlock"
  /\ sheld' = [sheld EXCEPT ![p][r] = FALSE]
  /\ spc' = [spc EXCEPT ![p][r] = "close"]
  /\ UNCHANGED <<storeVars, schedVars, sfd, sjob, lockPath, reqVars, timeVars>>
  /\ UNCHANGED detailVars

\* line 833: lock_file.close()
SClose(p, r) ==
  /\ spc[p][r] = "close"
  /\ sfd' = [sfd EXCEPT ![p][r] = 0]
  /\ spc' = [spc EXCEPT ![p][r] = "unlink"]
  /\ UNCHANGED <<storeVars, schedVars, sheld, sjob, lockPath, reqVars, timeVars>>
  /\ UNCHANGED detailVars

\* lines 834-837: os.unlink(lock_file_path) removes whatever file is at the path.
SUnlink(p, r) ==
  /\ spc[p][r] = "unlink"
  /\ lockPath' = [lockPath EXCEPT ![r] = 0]
  /\ spc' = [spc EXCEPT ![p][r] = "idle"]
  /\ UNCHANGED <<storeVars, schedVars, sfd, sheld, sjob, reqVars, timeVars>>
  /\ UNCHANGED detailVars

\* ---------------------------------------------------- request invocations
\* POST /repositories/<id>/backup served by process p on request thread k:
\* backup_service.backup_repository(repository) is called directly.
ManualBackup(k, p, r) ==
  /\ up[p]
  /\ rpc[k] = "idle"
  /\ repos[r].exists
  /\ Len(ledger) + Unstarted < MaxJobs
  /\ ledger' = Append(ledger, NewJob(r))
  /\ rpc' = [rpc EXCEPT ![k] = "clone"]
  /\ rproc' = [rproc EXCEPT ![k] = p]
  /\ rrepo' = [rrepo EXCEPT ![k] = r]
  /\ rjob' = [rjob EXCEPT ![k] = Len(ledger) + 1]
  /\ UNCHANGED <<repos, schedVars, invVars, timeVars>>
  /\ UNCHANGED detailVars

\* POST /api/test-backup/<id>: the same direct call, for an active repository.
TestBackup(k, p, r) ==
  /\ up[p]
  /\ rpc[k] = "idle"
  /\ repos[r].exists
  /\ Len(ledger) + Unstarted < MaxJobs
  /\ IF repos[r].is_active
     THEN /\ ledger' = Append(ledger, NewJob(r))
          /\ rpc' = [rpc EXCEPT ![k] = "clone"]
          /\ rproc' = [rproc EXCEPT ![k] = p]
          /\ rrepo' = [rrepo EXCEPT ![k] = r]
          /\ rjob' = [rjob EXCEPT ![k] = Len(ledger) + 1]
     ELSE UNCHANGED <<ledger, reqVars>>
  /\ UNCHANGED <<repos, schedVars, invVars, timeVars>>
  /\ UNCHANGED detailVars

\* The pipeline of request thread k ends and commits its final status.
RFinish(k, ok) ==
  /\ rpc[k] = "clone"
  /\ ledger' = FinalWrite(ledger, rjob[k], ok)
  /\ rpc' = [rpc EXCEPT ![k] = "idle"]
  /\ rjob' = [rjob EXCEPT ![k] = 0]
  /\ UNCHANGED <<repos, schedVars, invVars, rproc, rrepo, timeVars>>
  /\ UNCHANGED detailVars

\* ---------------------------------------------------------------- crash
\* Process p dies: its threads end, its open files are closed (which drops
\* their flocks), and its in-memory scheduler and registry are gone.  The
\* lock file and the ledger stay as they are.
Crash(p) ==
  /\ up[p]
  /\ crashes < MaxCrashes
  /\ crashes' = crashes + 1
  /\ up' = [up EXCEPT ![p] = FALSE]
  /\ jobs' = [jobs EXCEPT ![p] = [r \in Repos |-> NoTrigger]]
  /\ tracked' = [tracked EXCEPT ![p] = {}]
  /\ health' = [health EXCEPT ![p] = FALSE]
  /\ lastHealth' = [lastHealth EXCEPT ![p] = NoValue]
  /\ spc' = [spc EXCEPT ![p] = [r \in Repos |-> "idle"]]
  /\ sfd' = [sfd EXCEPT ![p] = [r \in Repos |-> 0]]
  /\ sheld' = [sheld EXCEPT ![p] = [r \in Repos |-> FALSE]]
  /\ sjob' = [sjob EXCEPT ![p] = [r \in Repos |-> 0]]
  /\ rpc' = [k \in Req |-> IF rproc[k] = p THEN "idle" ELSE rpc[k]]
  /\ rjob' = [k \in Req |-> IF rproc[k] = p THEN 0 ELSE rjob[k]]
  /\ UNCHANGED <<storeVars, rproc, rrepo, lockPath, clock, ticks>>
  /\ UNCHANGED detailVars

\* ----------------------------------------------------------- trigger times
\* Instants at minute resolution.  Days are counted from a Monday, so the
\* weekday of day d is d % 7 in the numbering of datetime.weekday() and of
\* APScheduler's day_of_week field (0 Monday .. 6 Sunday).  The instant tnow
\* carries, besides day, hour and minute, its day of the month (dom) and the
\* length of the months (mlen).
Instant(d, h, m) == [day |-> d, hour |-> h, minute |-> m]
NoInstant == Instant(NoValue, NoValue, NoValue)
Abs(t) == (t.day * 24 + t.hour) * 60 + t.minute
Weekday(d) == d % 7
FirstOfMonth(now) == now.day - (now.dom - 1)
DayOfMonth(now, d) == ((d - FirstOfMonth(now)) % now.mlen) + 1

\* A cron field left out of CronTrigger(...) matches every value.
Wildcard == NoValue

CronTrigger(dow, dom, h, m) ==
  [kind |-> "cron", day_of_week |-> dow, day |-> dom, hour |-> h, minute |-> m,
   days |-> 0, start_date |-> NoInstant]

IntervalTrigger(d, start) ==
  [kind |-> "interval", day_of_week |-> Wildcard, day |-> Wildcard, hour |-> Wildcard, minute |-> Wildcard,
   days |-> d, start_date |-> start]

\* schedule_backup_job returned before scheduler.add_job.
NotScheduled == [CronTrigger(Wildcard, Wildcard, Wildcard, Wildcard) EXCEPT !.kind = "none"]
\* schedule_backup_job has not run yet.
Pending == [CronTrigger(Wildcard, Wildcard, Wildcard, Wildcard) EXCEPT !.kind = "pending"]

\* Python's `v or d` on an integer column: NULL and 0 both give d.
OrDefault(v, d) == IF v = NoValue \/ v = 0 THEN d ELSE v

\* StartDays moving the anchor only when it is strictly before now.
StartDaysStrict(now, h, m) ==
  LET s0 == Instant(now.day, h, m)
  IN IF Abs(s0) < Abs(now) THEN Instant(now.day + 1, h, m) ELSE s0

\* lines 871-874: the anchor of a multi-day interval.
StartDays(now, h, m) ==
  LET s0 == Instant(now.day, h, m)
  IN IF Abs(s0) <= Abs(now) THEN Instant(now.day + 1, h, m) ELSE s0

\* lines 884-889: the anchor of a multi-week interval, the next Sunday.
StartWeeks(now, h, m) ==
  LET s0 == Instant(now.day, h, m)
      d0 == (6 - Weekday(now.day)) % 7
      days_until_sunday == IF d0 = 0 /\ Abs(s0) <= Abs(now) THEN 7 ELSE d0
  IN Instant(now.day + days_until_sunday, h, m)

\* lines 897-903: the anchor of a multi-month interval, the first of a month.
StartMonths(now, h, m) ==
  LET s0 == Instant(FirstOfMonth(now), h, m)
  IN IF Abs(s0) <= Abs(now) THEN Instant(FirstOfMonth(now) + now.mlen, h, m) ELSE s0

\* IntervalDays counting a month as 30 days.
IntervalDaysCalendar(unit, k) ==
  CASE unit = "days" -> k
    [] unit = "weeks" -> 7 * k
    [] unit = "months" -> 30 * k

\* lines 875, 890, 905: IntervalTrigger(days=k), (weeks=k), (weeks=k*4).
IntervalDays(unit, k) ==
  CASE unit = "days" -> k
    [] unit = "weeks" -> 7 * k
    [] unit = "months" -> 7 * (k * 4)

\* lines 846-911: the trigger schedule_backup_job builds for the schedule
\* columns cfg at instant now.
BuildTrigger(cfg, now) ==
  LET hour == OrDefault(cfg.custom_hour, 2)
      minute == OrDefault(cfg.custom_minute, 0)
      interval == OrDefault(cfg.custom_interval, 1)
      unit == IF cfg.custom_unit \in {"None", ""} THEN "days" ELSE cfg.custom_unit
  IN CASE cfg.schedule_type = "hourly" -> CronTrigger(Wildcard, Wildcard, Wildcard, 0)
       [] cfg.schedule_type = "daily" -> CronTrigger(Wildcard, Wildcard, 2, 0)
       [] cfg.schedule_type = "weekly" -> CronTrigger(0, Wildcard, 2, 0)
       [] cfg.schedule_type = "monthly" -> CronTrigger(Wildcard, 1, 2, 0)
       [] cfg.schedule_type = "custom" /\ unit = "days" ->
            IF interval = 1 THEN CronTrigger(Wildcard, Wildcard, hour, minute)
            ELSE IntervalTrigger(IntervalDays(unit, interval), StartDays(now, hour, minute))
       [] cfg.schedule_type = "custom" /\ unit = "weeks" ->
            IF interval = 1 THEN CronTrigger(0, Wildcard, hour, minute)
            ELSE IntervalTrigger(IntervalDays(unit, interval), StartWeeks(now, hour, minute))
       [] cfg.schedule_type = "custom" /\ unit = "months" ->
            IF interval = 1 THEN CronTrigger(Wildcard, 1, hour, minute)
            ELSE IntervalTrigger(IntervalDays(unit, interval), StartMonths(now, hour, minute))
       [] OTHER -> NotScheduled

\* The least element of a non-empty set of integers.
Least(S) == CHOOSE x \in S : \A y \in S : x <= y

\* The first instant after instant `after` that cron trigger tr matches.
NextCron(tr, after, now) ==
  LET hours == IF tr.hour = Wildcard THEN 0..23 ELSE {tr.hour}
      DayOK(d) == /\ tr.day_of_week = Wildcard \/ Weekday(d) = tr.day_of_week
                  /\ tr.day = Wildcard \/ DayOfMonth(now, d) = tr.day
      Later(d) == {h \in hours : Abs(Instant(d, h, tr.minute)) > Abs(after)}
      d0 == Least({d \in after.day..(after.day + now.mlen) : DayOK(d) /\ Later(d) # {}})
  IN Instant(d0, Least(Later(d0)), tr.minute)

\* The fire that follows the fires so far: a cron trigger fires at the next
\* matching instant, an interval trigger at start_date and then every
\* `days` days.
NextFire(tr, sofar, now) ==
  IF tr.kind = "cron"
  THEN NextCron(tr, IF sofar = <<>> THEN Instant(now.day, now.hour, now.minute)
                    ELSE sofar[Len(sofar)], now)
  ELSE IF sofar = <<>> THEN tr.start_date
       ELSE [sofar[Len(sofar)] EXCEPT !.day = @ + tr.days]

\* The schedule columns and arming instants followed.
Config(st, iv, un, h, m) ==
  [schedule_type |-> st, custom_interval |-> iv, custom_unit |-> un,
   custom_hour |-> h, custom_minute |-> m]

TrigConfigs ==
  {Config(st, NoValue, "None", 2, 0) : st \in {"manual", "hourly", "daily", "weekly", "monthly"}}
    \cup {Config("custom", iv, un, h, m) :
            iv \in {1, 2}, un \in {"days", "weeks", "months"}, h \in {0, 2, 23}, m \in {0, 30}}

Nows ==
  [day : 7..13, dom : {1, 15}, mlen : {30}, hour : {0, 2, 23}, minute : {0, 30}]

\* schedule_backup_job(repository) runs at tnow.
TArm ==
  /\ trig = Pending
  /\ trig' = BuildTrigger(tcfg, tnow)
  /\ UNCHANGED <<coreVars, pipeVars, tempVars, raceVars, moreVars, tcfg, tnow, fires>>

\* The armed trigger fires.
TFire ==
  /\ trig.kind \in {"cron", "interval"}
  /\ Len(fires) < MaxFires
  /\ fires' = Append(fires, NextFire(trig, fires, tnow))
  /\ UNCHANGED <<coreVars, pipeVars, tempVars, raceVars, moreVars, tcfg, tnow, trig>>

\* No schedule_backup_job call is followed in detail.
NoTrigDetail ==
  /\ tcfg = Config("manual", NoValue, "None", 2, 0)
  /\ tnow = [day |-> 0, dom |-> 1, mlen |-> 30, hour |-> 0, minute |-> 0]
  /\ trig = NotScheduled
  /\ fires = <<>>

\* ------------------------------------------------- the pipeline in detail
\* One call of BackupService.backup_repository, statement by statement.
\* An archive is an entry of repo_backup_dir; its timestamped name and its
\* modification time are the same stamp, so an archive is identified by mtime.
Formats == {"folder", "zip", "tar.gz"}

\* backup_format is a free-text column (app.py 457, 535).
FormatInputs == Formats \cup {"tar"}

\* retention_count is int(request.form[...]) without a range check
\* (app.py 459, 537).
RetentionCounts == (0 - 1)..MaxArchives

\* What can go wrong in the environment of a run.
Faults == {"none", "tempdir", "clone_exit", "clone_timeout", "package", "package_partial", "sweep"}

\* The instant of the run, later than every archive already there.
RunTime == MaxArchives + 1

\* _create_backup: the suffix of backup_path.
Extension(fmt) ==
  CASE fmt = "zip" -> ".zip"
    [] fmt = "tar.gz" -> ".tar.gz"
    [] OTHER -> ""

Archive(fmt, t, size) == [format |-> fmt, mtime |-> t, size |-> size]

\* The entry _create_backup leaves when it raises after it has opened the
\* archive file (lines 256-257, 270-271) or has copied a part of the tree
\* (line 252): nothing removes it.
PartialArchive(fmt, t) == Archive(fmt, t, 0)

Path(t, fmt) == [name |-> t, ext |-> Extension(fmt)]
NoPath == [name |-> NoValue, ext |-> ""]

\* Bytes of the archive _create_backup writes for a working tree of `content`
\* bytes: the copied files for folder; for zip and tar.gz the container, which
\* is 22 and 51 bytes without members.
PackedSize(fmt, content) ==
  CASE fmt = "folder" -> content
    [] fmt = "zip" -> 22 + content
    [] fmt = "tar.gz" -> 51 + content

\* _get_file_size: the size of the entry at path, 0 when there is none.
GetFileSize(A, path) ==
  IF \E a \in A : a.mtime = path.name /\ Extension(a.format) = path.ext
  THEN (CHOOSE a \in A : a.mtime = path.name /\ Extension(a.format) = path.ext).size
  ELSE 0

\* _cleanup_old_backups, lines 288-297: the entries listed for a format.
Listed(A, fmt) == IF fmt \in Formats THEN {a \in A : a.format = fmt} ELSE {}

\* line 300: backups.sort(key=st_mtime, reverse=True).
RECURSIVE SortNewestFirst(_)
SortNewestFirst(S) ==
  IF S = {} THEN <<>>
  ELSE LET a == CHOOSE x \in S : \A y \in S : y.mtime <= x.mtime
       IN <<a>> \o SortNewestFirst(S \ {a})

\* SliceFrom keeping one entry more.
SliceFromNext(seq, n) == SubSeq(seq, n + 2, Len(seq))

\* Python's seq[n:], n of either sign.
SliceFrom(seq, n) ==
  LET start == IF n >= 0 THEN (IF n < Len(seq) THEN n ELSE Len(seq))
               ELSE (IF Len(seq) + n > 0 THEN Len(seq) + n ELSE 0)
  IN SubSeq(seq, start + 1, Len(seq))

\* line 304: the entries the sweep tries to remove.
ToRemove(A, n, fmt) ==
  LET backups == SliceFrom(SortNewestFirst(Listed(A, fmt)), n)
  IN {backups[i] : i \in 1..Len(backups)}

\* lines 304-312: each of them is removed unless its removal raises, which
\* is logged; stuck is the stamp of an entry that cannot be removed.
CleanupOldBackups(A, n, fmt, stuck) ==
  A \ {a \in ToRemove(A, n, fmt) : a.mtime # stuck}

\* str(e) of what a fault makes the run raise.
FailureMessage(fault) ==
  CASE fault = "tempdir" -> "mkdir failed"
    [] fault = "clone_exit" -> "Git clone failed: stderr"
    [] fault = "clone_timeout" -> "Git clone operation timed out"
    [] fault \in {"package", "package_partial"} -> "write failed"
    [] fault = "sweep" -> "stat failed"
    [] OTHER -> ""

\* Unsupported with the format left out of the message.
UnsupportedAnonymous(fmt) == "Unsupported backup format"

\* _create_backup, line 284: ValueError(f"Unsupported backup format: ...").
Unsupported(fmt) == "Unsupported backup format: " \o fmt

\* str(e) of the exception the run raises, "" when it raises none: the
\* statements raise in program order, and _create_backup tests the format
\* before it writes.
Raised(run) ==
  CASE run.fault \in {"tempdir", "clone_exit", "clone_timeout"} -> FailureMessage(run.fault)
    [] run.fault \notin {"tempdir", "clone_exit", "clone_timeout"}
         /\ run.backup_format \notin Formats -> Unsupported(run.backup_format)
    [] OTHER -> FailureMessage(run.fault)

\* The backup_job row of the run.
PipeRow(st, started, path, size, done, err) ==
  [status |-> st, started_at |-> started, backup_path |-> path, file_size |-> size,
   completed_at |-> done, error_message |-> err]

NoJob == PipeRow("none", NoValue, NoPath, NoValue, NoValue, "")

\* InsertedRow left at the column default, without started_at.
InsertedRowPending(now) == PipeRow("pending", NoValue, NoPath, NoValue, NoValue, "")

\* lines 24-29: the row backup_repository inserts.
InsertedRow(now) == PipeRow("running", now, NoPath, NoValue, NoValue, "")

\* FailedRow without the error detail.
FailedRowSilent(row, e, now) ==
  [row EXCEPT !.status = "failed", !.completed_at = now]

\* lines 97-99: what the except clause writes.
FailedRow(row, e, now) ==
  [row EXCEPT !.status = "failed", !.error_message = e, !.completed_at = now]

\* CompletedRow without the status.
CompletedRowRunning(row, path, A, now) ==
  [row EXCEPT !.backup_path = path, !.file_size = GetFileSize(A, path),
              !.completed_at = now]

\* lines 85-88: what a run that got through the sweep writes.
CompletedRow(row, path, A, now) ==
  [row EXCEPT !.status = "completed", !.backup_path = path,
              !.file_size = GetFileSize(A, path), !.completed_at = now]

\* RemoveTemp leaving the directory in place.
RemoveTempKept(exists, rmfail) == exists

\* shutil.rmtree(temp_clone_dir) guarded by exists(), its failure logged:
\* whether the directory is still there afterwards.
RemoveTemp(exists, rmfail) == exists /\ rmfail

\* The runs followed: every format, retention count, fault, empty and
\* non-empty working tree, an entry that cannot be removed, a temporary
\* directory that cannot be removed, and a repository backed up before or
\* never.
RunInputs ==
  {i \in [backup_format : FormatInputs, retention_count : RetentionCounts,
          fault : Faults, content : {0, 1}, stuck : {NoValue} \cup (1..MaxArchives),
          rmfail : BOOLEAN, last_backup : {NoValue, 0}] :
     /\ i.fault # "none" => (i.content = 0 /\ i.stuck = NoValue)
     /\ i.rmfail => (i.retention_count = 1 /\ i.last_backup = 0)}

\* The directories the run can find: each stamp 1..MaxArchives has no entry,
\* an archive of the repository's format, or one of another format left from
\* before the format was edited.
OtherFormat(fmt) == IF fmt = "zip" THEN "folder" ELSE "zip"

ArchiveSets(fmt) ==
  {{Archive(IF f[t] = "same" /\ fmt \in Formats THEN fmt ELSE OtherFormat(fmt), t,
            PackedSize(IF f[t] = "same" /\ fmt \in Formats THEN fmt ELSE OtherFormat(fmt), 1)) :
       t \in {x \in 1..MaxArchives : f[x] # "none"}} :
     f \in [1..MaxArchives -> {"none", "same", "other"}]}

\* The except clause is entered with exception e.
Raise(e) ==
  /\ ppc' = "except"
  /\ perr' = e
  /\ UNCHANGED <<pjob, archives, plast, pnew, premoved>>

\* lines 24-32: the row is inserted in status running and committed.
PInsert ==
  /\ ppc = "start"
  /\ pjob' = InsertedRow(RunTime)
  /\ ppc' = "tempdir"
  /\ UNCHANGED <<coreVars, trigVars, tempVars, raceVars, moreVars, prun, perr, archives, plast, pclones, pnew,
                 premoved, ptemp>>

\* lines 36-69: the backup directories and the temporary directory.
PTempDir ==
  /\ ppc = "tempdir"
  /\ IF prun.fault = "tempdir"
     THEN Raise(Raised(prun)) /\ UNCHANGED ptemp
     ELSE /\ ptemp' = TRUE
          /\ ppc' = "clone"
          /\ UNCHANGED <<pjob, perr, archives, plast, pnew, premoved>>
  /\ UNCHANGED <<coreVars, trigVars, tempVars, raceVars, moreVars, prun, pclones>>

\* line 71, _clone_repository: one git clone subprocess.  After a non-zero
\* exit the except clause of _clone_repository (198-207) removes clone_dir;
\* after a timeout (195-197) it does not.
PClone ==
  /\ ppc = "clone"
  /\ pclones' = pclones + 1
  /\ IF prun.fault \in {"clone_exit", "clone_timeout"}
     THEN /\ Raise(Raised(prun))
          /\ ptemp' = IF prun.fault = "clone_exit" THEN RemoveTemp(ptemp, prun.rmfail)
                      ELSE ptemp
     ELSE ppc' = "package" /\ UNCHANGED <<pjob, perr, archives, plast, pnew, premoved, ptemp>>
  /\ UNCHANGED <<coreVars, trigVars, tempVars, raceVars, moreVars, prun>>

\* lines 74-79, _create_backup.
PPackage ==
  /\ ppc = "package"
  /\ IF prun.fault = "package" \/ prun.backup_format \notin Formats
     THEN Raise(Raised(prun))
     ELSE IF prun.fault = "package_partial"
     THEN /\ archives' = archives \cup {PartialArchive(prun.backup_format, RunTime)}
          /\ ppc' = "except"
          /\ perr' = Raised(prun)
          /\ UNCHANGED <<pjob, plast, pnew, premoved>>
     ELSE /\ archives' = archives \cup
                {Archive(prun.backup_format, RunTime,
                         PackedSize(prun.backup_format, prun.content))}
          /\ pnew' = Path(RunTime, prun.backup_format)
          /\ ppc' = "sweep"
          /\ UNCHANGED <<pjob, perr, plast, premoved>>
  /\ UNCHANGED <<coreVars, trigVars, tempVars, raceVars, moreVars, prun, pclones, ptemp>>

\* line 82, _cleanup_old_backups; the stat() of the sort (line 300) is not
\* inside a try of its own.
PSweep ==
  /\ ppc = "sweep"
  /\ IF prun.fault = "sweep"
     THEN Raise(Raised(prun))
     ELSE /\ archives' = CleanupOldBackups(archives, prun.retention_count,
                                           prun.backup_format, prun.stuck)
          /\ premoved' = archives \ archives'
          /\ ppc' = "record"
          /\ UNCHANGED <<pjob, perr, plast, pnew>>
  /\ UNCHANGED <<coreVars, trigVars, tempVars, raceVars, moreVars, prun, pclones, ptemp>>

\* lines 85-93: the row is completed and last_backup set.
PRecord ==
  /\ ppc = "record"
  /\ pjob' = CompletedRow(pjob, pnew, archives, RunTime)
  /\ plast' = RunTime
  /\ ppc' = "finally"
  /\ UNCHANGED <<coreVars, trigVars, tempVars, raceVars, moreVars, prun, perr, archives, pclones, pnew, premoved, ptemp>>

\* lines 95-105: the except clause.
PExcept ==
  /\ ppc = "except"
  /\ pjob' = FailedRow(pjob, perr, RunTime)
  /\ ppc' = "finally"
  /\ UNCHANGED <<coreVars, trigVars, tempVars, raceVars, moreVars, prun, perr, archives, plast, pclones, pnew,
                 premoved, ptemp>>

\* lines 107-138: the temporary directory is removed, a failure of the
\* removal logged, and the session committed.
PFinally ==
  /\ ppc = "finally"
  /\ ptemp' = RemoveTemp(ptemp, prun.rmfail)
  /\ ppc' = "done"
  /\ UNCHANGED <<coreVars, trigVars, tempVars, raceVars, moreVars, prun, pjob, perr, archives, plast, pclones, pnew,
                 premoved>>

\* No backup_repository call is followed in detail.
NoPipeDetail ==
  /\ prun = [backup_format |-> "folder", retention_count |-> 1, fault |-> "none",
             content |-> 0, stuck |-> NoValue, rmfail |-> FALSE, last_backup |-> NoValue]
  /\ ppc = "idle"
  /\ pjob = NoJob
  /\ perr = ""
  /\ archives = {}
  /\ plast = NoValue
  /\ pclones = 0
  /\ pnew = NoPath
  /\ premoved = {}
  /\ ptemp = FALSE

\* ------------------------------------------- temporary directory cleanup
\* A temp_ directory of repo_backup_dir: older than 10 minutes or not, empty
\* or not, and what shutil.rmtree does to it: "ok" removes it, "fails" raises
\* at once, "contents" removes what is inside and raises on the directory.
\* Its role is what the directory is: the working directory a run that has
\* ended left behind, the working directory of a run that is in progress
\* (temp_<timestamp>, line 49), or a folder archive <name>_<timestamp> of a
\* repository whose name starts with temp_ (line 46).
TempRoles == {"leftover", "inflight", "archive"}

TempDir(i, old, empty, removal, role) ==
  [id |-> i, old |-> old, empty |-> empty, removal |-> removal, role |-> role]

\* What a temp_ directory can be like, and the name prefix of an entry that
\* is none.
TempKinds ==
  [old : BOOLEAN, empty : BOOLEAN, removal : {"ok", "fails", "contents"}, role : TempRoles]
NoTempDir == [old |-> FALSE, empty |-> FALSE, removal |-> "none", role |-> "none"]

\* The sets of temp_ directories with at most one directory per id.
TempDirSets ==
  {{TempDir(i, f[i].old, f[i].empty, f[i].removal, f[i].role) :
       i \in {x \in 1..MaxTempDirs : f[x] # NoTempDir}} :
     f \in [1..MaxTempDirs -> TempKinds \cup {NoTempDir}]}

\* AfterFailedRemoval with a directory that gives way at the next attempt.
AfterFailedRemovalLoosened(d) == [d EXCEPT !.empty = TRUE, !.removal = "ok"]

\* lines 228-242: a removal that raised, and whose forced repetition raised,
\* is logged; the directory stays, without what was removed before the error.
AfterFailedRemoval(d) == [d EXCEPT !.empty = d.empty \/ d.removal = "contents"]

\* lines 221-227: the directories removed are those older than 10 minutes
\* and the empty ones.
Selected(d) == d.old \/ d.empty

\* _cleanup_temp_directories on a directory that exists or not.
CleanupTempDirectories(exists, D) ==
  IF ~exists THEN D
  ELSE {d \in D : ~Selected(d)}
         \cup {AfterFailedRemoval(d) : d \in {x \in D : Selected(x) /\ x.removal # "ok"}}

\* One call; every exception is caught inside (lines 228-245).
TCleanup ==
  /\ tcalls < MaxCalls
  /\ tdirs' = CleanupTempDirectories(texists, tdirs)
  /\ tcalls' = tcalls + 1
  /\ traised' = FALSE
  /\ UNCHANGED <<coreVars, trigVars, pipeVars, raceVars, moreVars, texists>>

\* No _cleanup_temp_directories call is followed in detail.
NoTempDetail ==
  /\ texists = TRUE
  /\ tdirs = {}
  /\ tcalls = 0
  /\ traised = FALSE

\* ------------------------------------------------ calls on the job store
\* The job store and _scheduled_jobs of one process, for one repository id,
\* under calls made by several threads at once (request threads of add, edit
\* and delete, the import of app.py, the pool thread of the health check).
\* schedule_backup_job is followed statement by statement.
ArmThreads == 1..NumArmThreads

\* add_job appending the job whatever the store holds.
AddJobAppend(n) == n + 1

\* scheduler.add_job(id=job_id, replace_existing=True), lines 913-922: the
\* store is keyed by job id; a job with the id is replaced, not joined.
AddJob(n) == IF n >= 1 THEN n ELSE 1

\* scheduler.remove_job(job_id): the job with the id leaves the store.
RemoveJob(n) == IF n >= 1 THEN n - 1 ELSE n

\* A call begins.
ABegin(t) ==
  /\ apc[t] = "idle"
  /\ acalls < MaxArmCalls
  /\ acalls' = acalls + 1

\* schedule_backup_job, lines 731-737: the test-and-set on _scheduled_jobs
\* under _job_tracking_lock.
ATestAndSet(t) ==
  /\ ABegin(t)
  /\ IF areg THEN UNCHANGED <<apc, areg>>
     ELSE areg' = TRUE /\ apc' = [apc EXCEPT ![t] = "get"]
  /\ UNCHANGED <<coreVars, trigVars, pipeVars, tempVars, moreVars, astore>>

\* line 743: existing_job = scheduler.get_job(job_id)
AGet(t) ==
  /\ apc[t] = "get"
  /\ apc' = [apc EXCEPT ![t] = IF astore >= 1 THEN "remove" ELSE "recheck"]
  /\ UNCHANGED <<coreVars, trigVars, pipeVars, tempVars, moreVars, astore, areg, acalls>>

\* line 745: scheduler.remove_job(job_id); when the job is gone by now the
\* JobLookupError is caught at line 752 and the discard is skipped.
ARemove(t) ==
  /\ apc[t] = "remove"
  /\ astore' = RemoveJob(astore)
  /\ apc' = [apc EXCEPT ![t] = IF astore >= 1 THEN "discard" ELSE "recheck"]
  /\ UNCHANGED <<coreVars, trigVars, pipeVars, tempVars, moreVars, areg, acalls>>

\* lines 748-749: _scheduled_jobs.discard(job_id)
ADiscard(t) ==
  /\ apc[t] = "discard"
  /\ areg' = FALSE
  /\ apc' = [apc EXCEPT ![t] = "recheck"]
  /\ UNCHANGED <<coreVars, trigVars, pipeVars, tempVars, moreVars, astore, acalls>>

\* lines 755-760: the job is looked up again; when it is there the id is
\* discarded and the call returns.
ARecheck(t) ==
  /\ apc[t] = "recheck"
  /\ IF astore >= 1
     THEN areg' = FALSE /\ apc' = [apc EXCEPT ![t] = "idle"]
     ELSE UNCHANGED areg /\ apc' = [apc EXCEPT ![t] = "add"]
  /\ UNCHANGED <<coreVars, trigVars, pipeVars, tempVars, moreVars, astore, acalls>>

\* lines 913-922: scheduler.add_job for a schedule that has a trigger.
AAdd(t) ==
  /\ apc[t] = "add"
  /\ astore' = AddJob(astore)
  /\ apc' = [apc EXCEPT ![t] = "verify"]
  /\ UNCHANGED <<coreVars, trigVars, pipeVars, tempVars, moreVars, areg, acalls>>

\* lines 908-911: a custom schedule with an unknown unit, or the manual
\* schedule, has no trigger; the call returns and the id stays registered.
ASkip(t) ==
  /\ apc[t] = "add"
  /\ apc' = [apc EXCEPT ![t] = "idle"]
  /\ UNCHANGED <<coreVars, trigVars, pipeVars, tempVars, moreVars, astore, areg, acalls>>

\* lines 927-934: the job is looked up; when it is missing the id is
\* discarded.
AVerify(t) ==
  /\ apc[t] = "verify"
  /\ areg' = IF astore >= 1 THEN areg ELSE FALSE
  /\ apc' = [apc EXCEPT ![t] = "idle"]
  /\ UNCHANGED <<coreVars, trigVars, pipeVars, tempVars, moreVars, astore, acalls>>

\* edit_repository, lines 586-591, and delete_repository, lines 612-615: the
\* job is removed, a failure of the removal ignored.
ARemoveJob(t) ==
  /\ ABegin(t)
  /\ astore' = RemoveJob(astore)
  /\ UNCHANGED <<coreVars, trigVars, pipeVars, tempVars, moreVars, apc, areg>>

\* schedule_all_repositories, lines 215-219, and scheduler_health_check,
\* lines 247-249: every backup_ job is removed.
AClearJobs(t) ==
  /\ ABegin(t)
  /\ astore' = 0
  /\ apc' = [apc EXCEPT ![t] = "clear"]
  /\ UNCHANGED <<coreVars, trigVars, pipeVars, tempVars, moreVars, areg>>

\* lines 222-224 and 252-253: _scheduled_jobs.clear(); the calls of
\* schedule_backup_job that follow are calls of ATestAndSet.
AClearRegistry(t) ==
  /\ apc[t] = "clear"
  /\ areg' = FALSE
  /\ apc' = [apc EXCEPT ![t] = "idle"]
  /\ UNCHANGED <<coreVars, trigVars, pipeVars, tempVars, moreVars, astore, acalls>>

\* No call on the job store is followed statement by statement.
NoRaceDetail ==
  /\ apc = [t \in ArmThreads |-> "idle"]
  /\ astore = 0
  /\ areg = FALSE
  /\ acalls = 0

\* ------------------------------------------------------------ clone URL
\* Strings as sequences of pieces.  A URL is made of the pieces below; the
\* first is the prefix _clone_repository tests for.  A token is made of
\* blanks and of one other character.
GitHubPrefix == "https://github.com/"
UrlPieces == {GitHubPrefix, "http://github.com/", "owner/repo.git"}
TokenPieces == {" ", "t"}

\* Sequences over S of length at most n.
SeqUpTo(S, n) == UNION {[1..k -> S] : k \in 0..n}

\* github_token: None, or a string.
Token(isset, chars) == [isset |-> isset, chars |-> chars]
NoToken == Token(FALSE, <<>>)
Tokens == {NoToken} \cup {Token(TRUE, c) : c \in SeqUpTo(TokenPieces, MaxTokenLen)}

NoUrl == <<"none">>

\* str.strip(): leading and trailing blanks removed.
RECURSIVE Strip(_)
Strip(c) ==
  IF c = <<>> THEN c
  ELSE IF Head(c) = " " THEN Strip(Tail(c))
  ELSE IF c[Len(c)] = " " THEN Strip(SubSeq(c, 1, Len(c) - 1))
  ELSE c

\* The test of line 145 without the strip.
HasTokenTruthy(tok) == tok.isset /\ tok.chars # <<>>

\* line 145: repository.github_token and repository.github_token.strip()
HasToken(tok) == tok.isset /\ tok.chars # <<>> /\ Strip(tok.chars) # <<>>

\* line 146: clone_url.startswith('https://github.com/')
StartsWithPrefix(url) == Len(url) >= 1 /\ url[1] = GitHubPrefix

\* line 148: str.replace, which rewrites every occurrence of the prefix, with
\* the token as stored.
RECURSIVE ReplacePrefix(_, _)
ReplacePrefix(url, chars) ==
  IF url = <<>> THEN <<>>
  ELSE (IF Head(url) = GitHubPrefix
        THEN <<"https://">> \o chars \o <<"@github.com/">>
        ELSE <<Head(url)>>) \o ReplacePrefix(Tail(url), chars)

\* _clone_repository, lines 142-148.
CloneUrl(url, tok) ==
  IF HasToken(tok) /\ StartsWithPrefix(url) THEN ReplacePrefix(url, tok.chars) ELSE url

\* One call of _clone_repository builds its clone URL.
UClone ==
  /\ cclone = NoUrl
  /\ cclone' = CloneUrl(curl, ctoken)
  /\ UNCHANGED <<coreVars, trigVars, pipeVars, tempVars, raceVars, dirVars, curl, ctoken>>

NoUrlDetail == curl = <<>> /\ ctoken = NoToken /\ cclone = NoUrl

\* ------------------------------------------------------ backup directories
\* Repositories as add_repository stores them, and the tree under
\* backup_base_dir.  The last segment of a URL is a sequence of pieces.
Users == {1, 2}
Owners == {"alice", "bob"}
NamePieces == {"app", "lib", ".git"}
LastSegments == SeqUpTo(NamePieces, 2) \ {<<>>, <<".git">>, <<".git", ".git">>}
Urls == [owner : Owners, last : LastSegments]

\* str.replace('.git', ''): every occurrence is removed.
RECURSIVE RemoveGit(_)
RemoveGit(s) ==
  IF s = <<>> THEN <<>>
  ELSE (IF Head(s) = ".git" THEN <<>> ELSE <<Head(s)>>) \o RemoveGit(Tail(s))

\* add_repository, line 500: repo_url.split('/')[-1].replace('.git', '')
RepoName(url) == RemoveGit(url.last)

\* add_repository, lines 502-515: the row stored; no row is refused.
DirRepo(user, url) == [user_id |-> user, name |-> RepoName(url), url |-> url]

\* backup_repository, lines 37-42: backup_base_dir / user_<id> / name
RepoBackupDir(row) == <<row.user_id, row.name>>

DirRepos == 1..Len(drepos)

\* An archive in directory dir, written by the run of repository owner.
DirFile(dir, owner, stamp) == [dir |-> dir, owner |-> owner, stamp |-> stamp]

\* _cleanup_old_backups, lines 288-304: of the entries of the directory, those
\* after the first n newest.
Beyond(F, dir, n) ==
  {f \in F : f.dir = dir
             /\ Cardinality({g \in F : g.dir = dir /\ g.stamp > f.stamp}) >= n}

\* POST /repositories/add
DAdd(user, url) ==
  /\ Len(drepos) < NumRepos
  /\ drepos' = Append(drepos, DirRepo(user, url))
  /\ UNCHANGED <<coreVars, trigVars, pipeVars, tempVars, raceVars, urlVars, dfiles, dremoved>>

\* backup_repository for repository r with retention_count n: the archive is
\* written into repo_backup_dir and the directory is swept.
DRun(r, n) ==
  /\ r \in DirRepos
  /\ Cardinality(dfiles) + Cardinality(dremoved) < MaxDirRuns
  /\ LET dir == RepoBackupDir(drepos[r])
         written == dfiles \cup
                      {DirFile(dir, r, Cardinality(dfiles) + Cardinality(dremoved) + 1)}
         gone == Beyond(written, dir, n)
     IN /\ dfiles' = written \ gone
        /\ dremoved' = dremoved \cup {[file |-> f, by |-> r] : f \in gone}
  /\ UNCHANGED <<coreVars, trigVars, pipeVars, tempVars, raceVars, urlVars, drepos>>

NoDirDetail == drepos = <<>> /\ dfiles = {} /\ dremoved = {}

NoMoreDetail == NoUrlDetail /\ NoDirDetail

\* --------------------------------------------------------- specifications
\* No process has imported app.py yet.
ProcessDown ==
  /\ clock = 0
  /\ ticks = 0
  /\ crashes = 0
  /\ up = [p \in Procs |-> FALSE]
  /\ jobs = [p \in Procs |-> [r \in Repos |-> NoTrigger]]
  /\ tracked = [p \in Procs |-> {}]
  /\ health = [p \in Procs |-> FALSE]
  /\ lastHealth = [p \in Procs |-> NoValue]
  /\ spc = [p \in Procs |-> [r \in Repos |-> "idle"]]
  /\ sfd = [p \in Procs |-> [r \in Repos |-> 0]]
  /\ sheld = [p \in Procs |-> [r \in Repos |-> FALSE]]
  /\ sjob = [p \in Procs |-> [r \in Repos |-> 0]]
  /\ rpc = [k \in Req |-> "idle"]
  /\ rproc = [k \in Req |-> 1]
  /\ rrepo = [k \in Req |-> 1]
  /\ rjob = [k \in Req |-> 0]
  /\ lockPath = [r \in Repos |-> 0]
  /\ settings = [r \in Repos |-> 1]
  /\ sclosure = [p \in Procs |-> [r \in Repos |-> NoValue]]
  /\ sused = [p \in Procs |-> [r \in Repos |-> NoValue]]

\* The same over an empty backup_job table.
InitProcess == ledger = <<>> /\ ProcessDown

\* A database holding repository 1 with the hourly schedule and every other
\* repository with the manual schedule, all active.
InitRepos ==
  repos = [r \in Repos |->
             Row(TRUE, TRUE, IF r = 1 THEN "hourly" ELSE "manual", NoValue, "None")]

NoAside == NoTrigDetail /\ NoPipeDetail /\ NoTempDetail /\ NoRaceDetail /\ NoMoreDetail

Init == InitRepos /\ InitProcess /\ NoAside

\* A pipeline run of repository r in a worker process other than the ones
\* followed inserts its row (backup_repository, lines 24-32); that process
\* dies before the run ends.
ForeignRun(r) ==
  /\ repos[r].exists
  /\ Len(ledger) + Unstarted < MaxJobs
  /\ ledger' = Append(ledger, NewJob(r))
  /\ UNCHANGED <<repos, schedVars, invVars, reqVars, timeVars>>
  /\ UNCHANGED detailVars

Step(p, r) ==
  \/ Fire(p, r)
  \/ SRead(p, r)
  \/ SReap(p, r)
  \/ SCheck(p, r)
  \/ SOpen(p, r)
  \/ SFlock(p, r)
  \/ SRun(p, r)
  \/ \E ok \in BOOLEAN : SFinish(p, r, ok)
  \/ SUnlock(p, r)
  \/ SClose(p, r)
  \/ SUnlink(p, r)

\* Dispatch in one scheduler process: the process starts and crashes, its
\* triggers fire, requests start manual and test backups, and time passes.
Next ==
  \/ \E p \in MainProcs : Startup(p)
  \/ \E p \in MainProcs : Crash(p)
  \/ \E p \in MainProcs, r \in Repos : Step(p, r)
  \/ \E k \in Req, p \in MainProcs, r \in Repos : ManualBackup(k, p, r)
  \/ \E k \in Req, p \in MainProcs, r \in Repos : TestBackup(k, p, r)
  \/ \E k \in Req, ok \in BOOLEAN : RFinish(k, ok)
  \/ \E d \in TickSteps : Tick(d)

Spec == Init /\ [][Next]_vars

\* NumLockProcs worker processes, each with its own scheduler, fire the
\* trigger of the same repository and contend for its lock file.
LockNext ==
  \/ \E p \in LockProcs : Startup(p)
  \/ \E p \in LockProcs, r \in Repos : Step(p, r)

LockSpec == Init /\ [][LockNext]_vars

\* Arming and disarming: requests add, edit and delete repositories of a
\* database that starts empty; the process starts and crashes.
ArmInit ==
  repos = [r \in Repos |-> NoRow] /\ InitProcess /\ NoAside

ArmNext ==
  \/ \E p \in MainProcs : Startup(p)
  \/ \E p \in MainProcs : Crash(p)
  \/ \E p \in MainProcs, s \in ScheduleInputs : AddRepository(p, s)
  \/ \E p \in MainProcs, r \in Repos, s \in ScheduleInputs, a \in BOOLEAN :
        EditRepository(p, r, s, a)
  \/ \E p \in MainProcs, r \in Repos : DeleteRepository(p, r)

ArmSpec == ArmInit /\ [][ArmNext]_vars

\* Edits and deletions while scheduled invocations are in flight.
EditNext ==
  \/ \E p \in MainProcs : Startup(p)
  \/ \E p \in MainProcs, r \in Repos : Step(p, r)
  \/ \E p \in MainProcs, r \in Repos, s \in ScheduleInputs, a \in BOOLEAN :
        EditRepository(p, r, s, a)
  \/ \E p \in MainProcs, r \in Repos : DeleteRepository(p, r)

EditSpec == Init /\ [][EditNext]_vars

\* The reaper passes: rows left running by dead workers age, the process
\* starts, and its triggers fire.
ReapNext ==
  \/ \E p \in MainProcs : Startup(p)
  \/ \E p \in MainProcs, r \in Repos : Step(p, r)
  \/ \E r \in Repos : ForeignRun(r)
  \/ \E d \in TickSteps : Tick(d)

ReapSpec == Init /\ [][ReapNext]_vars

\* The periodic health check: rows left running age while the process runs
\* its scheduler_health_check job and no backup trigger fires.
HealthNext ==
  \/ \E p \in MainProcs : Startup(p)
  \/ \E p \in MainProcs : HealthCheck(p)
  \/ \E r \in Repos : ForeignRun(r)
  \/ \E d \in TickSteps : Tick(d)

HealthSpec == Init /\ [][HealthNext]_vars


\* Crash and restart: the process dies at any point of a scheduled run and
\* is started again.  The supervisor restarts a dead process, time passes,
\* a thread that is running keeps running, and an armed trigger keeps firing.
RestartNext ==
  \/ \E p \in MainProcs : Startup(p)
  \/ \E p \in MainProcs : Crash(p)
  \/ \E p \in MainProcs, r \in Repos : Step(p, r)
  \/ \E d \in TickSteps : Tick(d)

RestartFairness ==
  /\ \A p \in MainProcs : WF_vars(Startup(p))
  /\ \A p \in MainProcs, r \in Repos : WF_vars(Step(p, r))
  /\ WF_vars(\E d \in TickSteps : Tick(d))

RestartSpec == Init /\ [][RestartNext]_vars /\ RestartFairness

\* Trigger construction: schedule_backup_job runs for one schedule at one
\* instant, and the trigger it armed fires.
TrigInit ==
  /\ InitRepos /\ InitProcess
  /\ tcfg \in TrigConfigs
  /\ tnow \in Nows
  /\ trig = Pending
  /\ fires = <<>>
  /\ NoPipeDetail /\ NoTempDetail /\ NoRaceDetail /\ NoMoreDetail

TrigNext == TArm \/ TFire

TrigSpec == TrigInit /\ [][TrigNext]_vars

\* One backup_repository call for one repository and one backup directory.
PipeInit ==
  /\ InitRepos /\ InitProcess /\ NoTrigDetail /\ NoTempDetail /\ NoRaceDetail /\ NoMoreDetail
  /\ prun \in RunInputs
  /\ ppc = "start"
  /\ pjob = NoJob
  /\ perr = ""
  /\ archives \in ArchiveSets(prun.backup_format)
  /\ plast = prun.last_backup
  /\ pclones = 0
  /\ pnew = NoPath
  /\ premoved = {}
  /\ ptemp = FALSE

PipeNext ==
  \/ PInsert
  \/ PTempDir
  \/ PClone
  \/ PPackage
  \/ PSweep
  \/ PRecord
  \/ PExcept
  \/ PFinally

PipeSpec == PipeInit /\ [][PipeNext]_vars

\* The thread running the call keeps running: no statement blocks for ever
\* (the clone subprocess has timeout=300) and the process does not die.
PipeFairness == WF_vars(PipeNext)

\* Termination is followed for the runs that find the backup directory empty
\* or holding an archive of the repository's format at every stamp.
PipeFairInit ==
  /\ PipeInit
  /\ \/ archives = {}
     \/ Cardinality(Listed(archives, prun.backup_format)) = MaxArchives

PipeFairSpec == PipeFairInit /\ [][PipeNext]_vars /\ PipeFairness

\* Calls of _cleanup_temp_directories on a backup directory that is missing,
\* clean, or holds temp_ directories of every kind, one per id.
TempInit ==
  /\ InitRepos /\ InitProcess /\ NoTrigDetail /\ NoPipeDetail /\ NoRaceDetail /\ NoMoreDetail
  /\ texists \in BOOLEAN
  /\ tdirs \in TempDirSets
  /\ ~texists => tdirs = {}
  /\ tcalls = 0
  /\ traised = FALSE

TempNext == TCleanup

TempSpec == TempInit /\ [][TempNext]_vars

\* Calls on the job store from NumArmThreads threads, in every order and
\* interleaved between their statements.
RaceInit == InitRepos /\ InitProcess /\ NoAside

RaceNext ==
  \/ \E t \in ArmThreads : ATestAndSet(t)
  \/ \E t \in ArmThreads : AGet(t)
  \/ \E t \in ArmThreads : ARemove(t)
  \/ \E t \in ArmThreads : ADiscard(t)
  \/ \E t \in ArmThreads : ARecheck(t)
  \/ \E t \in ArmThreads : AAdd(t)
  \/ \E t \in ArmThreads : ASkip(t)
  \/ \E t \in ArmThreads : AVerify(t)
  \/ \E t \in ArmThreads : ARemoveJob(t)
  \/ \E t \in ArmThreads : AClearJobs(t)
  \/ \E t \in ArmThreads : AClearRegistry(t)

RaceSpec == RaceInit /\ [][RaceNext]_vars

\* Three scheduled repositories' worth of concurrency: every repository has
\* the hourly schedule, the triggers fire, and requests start manual backups.
PoolInit ==
  /\ repos = [r \in Repos |-> Row(TRUE, TRUE, "hourly", NoValue, "None")]
  /\ InitProcess /\ NoAside

PoolNext ==
  \/ \E p \in MainProcs : Startup(p)
  \/ \E p \in MainProcs, r \in Repos : Step(p, r)
  \/ \E k \in Req, p \in MainProcs, r \in Repos : ManualBackup(k, p, r)
  \/ \E k \in Req, ok \in BOOLEAN : RFinish(k, ok)

PoolSpec == PoolInit /\ [][PoolNext]_vars

\* Fires and edits: the triggers fire while requests edit the settings and
\* the active flag of the repositories and delete them; the process dies and
\* starts again.
Settings == 1..NumSettings

FreshNext ==
  \/ \E p \in MainProcs : Startup(p)
  \/ \E p \in MainProcs, r \in Repos : Step(p, r)
  \/ \E p \in MainProcs, r \in Repos, a \in BOOLEAN, v \in Settings :
        EditRepositoryWith(p, r, Sched(repos[r].schedule_type, repos[r].custom_interval,
                                       repos[r].custom_unit), a, v)
  \/ \E p \in MainProcs, r \in Repos : DeleteRepository(p, r)
  \/ \E p \in MainProcs : Crash(p)

FreshSpec == Init /\ [][FreshNext]_vars

\* Clone URLs: one call of _clone_repository for every stored URL and token.
UrlInit ==
  /\ InitRepos /\ InitProcess
  /\ NoTrigDetail /\ NoPipeDetail /\ NoTempDetail /\ NoRaceDetail /\ NoDirDetail
  /\ curl \in SeqUpTo(UrlPieces, MaxUrlLen)
  /\ ctoken \in Tokens
  /\ cclone = NoUrl

UrlNext == UClone

UrlSpec == UrlInit /\ [][UrlNext]_vars

\* Repositories are added and backed up: every user, every URL.
DirInit == InitRepos /\ InitProcess /\ NoAside

DirNext ==
  \/ \E u \in Users, url \in Urls : DAdd(u, url)
  \/ \E r \in Repos, n \in 1..MaxDirRuns : DRun(r, n)

DirSpec == DirInit /\ [][DirNext]_vars

\* The rows a ledger holds when a process starts: left running by a run that
\* died, completed, or failed by a run's except clause.
StoredRows ==
  UNION {{JobRecord(r, "running", 0, NoValue, ""),
          JobRecord(r, "completed", 0, 0, ""),
          JobRecord(r, "failed", 0, 0, CloneError)} : r \in Repos}

\* Startup over a ledger that holds rows of every status, in every order,
\* some time after they were written.
DedupInit ==
  /\ InitRepos /\ ProcessDown /\ NoAside
  /\ ledger \in SeqUpTo(StoredRows, MaxJobs)

DedupNext ==
  \/ \E p \in MainProcs : Startup(p)
  \/ \E d \in TickSteps : Tick(d)

DedupSpec == DedupInit /\ [][DedupNext]_vars

\* =================================================================== claims
\* Pipeline invocations (backup_repository between the insert of its row and
\* its final commit) of repository r: scheduled ones and request threads.
Running(r) ==
  {<<"scheduled", p>> : p \in {q \in Procs : spc[q][r] = "clone"}}
    \cup {<<"request", k>> : k \in {x \in Req : rpc[x] = "clone" /\ rrepo[x] = r}}

\* Scheduled invocations of repository r between a successful flock and LOCK_UN.
LockHolders(r) == {p \in Procs : spc[p][r] \in {"run", "clone", "unlock"}}

\* C1: for every repository, at most one pipeline invocation is in progress
\* at any instant, whichever entry points (trigger fires, the manual backup
\* route, the test-backup endpoint) started them.
C1_SingleFlight == \A r \in Repos : Cardinality(Running(r)) <= 1

\* C2: among the scheduled invocations of one repository, run by any number
\* of processes and interleaved at the open / flock / pipeline / unlock /
\* close / unlink steps, at most one is between a successful lock
\* acquisition and its release.
C2_OneLockHolder == \A r \in Repos : Cardinality(LockHolders(r)) <= 1

\* What the admission of a scheduled invocation refuses: a running row, a row
\* started within the last 2 minutes, or the lock held by an invocation.
Refused(r) == HasRunning(ledger, r) \/ HasRecent(ledger, r) \/ LockHolders(r) # {}

\* C3: a manual backup of repository r goes through the admission of a
\* scheduled one: when a row of r is running, or started within the last 2
\* minutes, or the lock of r is held, the request starts no pipeline run and
\* inserts no row.
C3_ManualAdmission ==
  [][\A k \in Req, p \in MainProcs, r \in Repos :
       (ManualBackup(k, p, r) /\ Refused(r)) => (ledger' = ledger /\ rpc'[k] = "idle")]_vars

\* C4: of N >= 2 invocations of one repository that all pass the admission
\* checks before any of them has inserted a row, exactly one reaches the
\* clone step and the others insert no row.  Under LockSpec the clock stands
\* still, so once a row of r exists every later admission check refuses:
\* every row was inserted by an invocation admitted before the first insert.
C4_OneReachesClone ==
  \A r \in Repos : Cardinality({j \in JobIds : ledger[j].repository_id = r}) <= 1

\* C5: the status of a row only moves forward; once completed or failed, no
\* write of the pipeline, of a reaper pass or of the startup deduplication
\* changes it.
C5_StatusMonotonic ==
  [][\A j \in JobIds :
       ledger[j].status \in {"completed", "failed"}
         => ledger'[j].status = ledger[j].status]_vars

\* The request handled in this step stored an active repository r with a
\* schedule schedule_backup_job builds a trigger for.
StoredArmable(p, r) ==
  \/ \E s \in ScheduleInputs :
        AddRepository(p, s) /\ ~CustomIntervalRejected(s) /\ r = NewRepoId
  \/ \E s \in ScheduleInputs, a \in BOOLEAN :
        EditRepository(p, r, s, a) /\ ~CustomIntervalRejected(s)

\* C6: after a repository is created, or edited so that it ends active with
\* a non-manual schedule, a trigger is armed for it and is the one of the
\* stored schedule.
C6_ArmedAfterEdit ==
  [][\A p \in MainProcs, r \in Repos :
       (/\ StoredArmable(p, r)
        /\ repos'[r].is_active
        /\ TriggerFor(repos'[r]) # NoTrigger)
       => jobs'[p][r] = TriggerFor(repos'[r])]_vars

\* Repository r is deleted, inactive, or on the manual schedule.
Disarmed(r) ==
  ~repos[r].exists \/ ~repos[r].is_active \/ repos[r].schedule_type = "manual"

\* C7: once a repository is deactivated, deleted or switched to manual, no
\* trigger is armed for it, and no scheduled invocation of it starts the
\* pipeline from then on.
C7_NoRunAfterDisarm ==
  /\ [](\A p \in MainProcs, r \in Repos : Disarmed(r) => jobs[p][r] = NoTrigger)
  /\ [][\A p \in MainProcs, r \in Repos :
          (spc[p][r] = "run" /\ spc'[p][r] = "clone") => ~Disarmed(r)]_vars

\* The step is the startup initialization of process p.
StartupStep(p) == ~up[p] /\ up'[p]

Armable(row) ==
  \/ row.schedule_type \in {"hourly", "daily", "weekly", "monthly"}
  \/ /\ row.schedule_type = "custom"
     /\ row.custom_unit \in {"days", "weeks", "months", "None", ""}

C9_ReaperPass ==
  [][/\ \A p \in MainProcs :
          StartupStep(p) =>
            \A j \in JobIds :
               (ledger[j].status = "running" /\ ledger[j].started_at + StuckMinutes < clock)
                 => /\ ledger'[j].status = "failed"
                    /\ ledger'[j].completed_at = clock
                    /\ ledger'[j].error_message = RestartError
     /\ \A p \in MainProcs, r \in Repos :
          (spc[p][r] = "reap" /\ spc'[p][r] = "check") =>
            \A j \in JobIds :
               (/\ ledger[j].repository_id = r
                /\ ledger[j].status = "running"
                /\ ledger[j].started_at + StuckMinutes < clock)
                 => /\ ledger'[j].status = "failed"
                    /\ ledger'[j].completed_at = clock
                    /\ ledger'[j].error_message = StuckError]_vars

\* C9 witness: a row that ran for more than 2 hours was failed by the pass
\* at a trigger fire.
C9_Witness ==
  \E j \in JobIds :
     /\ ledger[j].status = "failed"
     /\ ledger[j].error_message = StuckError
     /\ ledger[j].started_at + StuckMinutes < ledger[j].completed_at

\* C10: the stuck-job reaper runs with the periodic health check: a row that
\* was running with started_at more than 2 hours old when the health check
\* of a process last ran is no longer running, although no trigger of its
\* repository fired and the process did not restart.
C10_PeriodicReaper ==
  \A p \in MainProcs, j \in JobIds :
     (lastHealth[p] # NoValue /\ ledger[j].started_at + StuckMinutes < lastHealth[p])
       => ledger[j].status # "running"


\* A row of repository r is running, or was created within the last 2 minutes.
ObservesRunningOrRecent(r) ==
  \E j \in JobIds :
     /\ ledger[j].repository_id = r
     /\ \/ ledger[j].status = "running"
        \/ ledger[j].created_at + RecentMinutes > clock

\* C12: a scheduled invocation whose admission check observes a running row
\* of its repository, or a row created within the last 2 minutes, returns:
\* it opens no lock file, takes no lock, and inserts no row.
C12_AdmissionRefuses ==
  [][\A p \in MainProcs, r \in Repos :
       (/\ spc[p][r] = "check"
        /\ spc'[p][r] # "check"
        /\ ObservesRunningOrRecent(r))
       => /\ spc'[p][r] = "idle"
          /\ Len(ledger') = Len(ledger)
          /\ lockPath' = lockPath
          /\ sfd'[p][r] = 0
          /\ ~sheld'[p][r]]_vars

\* C12 witness: an invocation is at its admission check while a row of its
\* repository started less than 2 minutes ago is no longer running.
C12_Witness ==
  \E p \in MainProcs, r \in Repos :
     /\ spc[p][r] = "check"
     /\ ~HasRunning(ledger, r)
     /\ \E j \in JobIds :
          /\ ledger[j].repository_id = r
          /\ ledger[j].status = "completed"
          /\ ledger[j].created_at + RecentMinutes > clock


\* The interval of custom schedule s lies in the range of its unit.
InRange(s) ==
  \/ s.custom_unit = "days" /\ s.custom_interval \in 1..365
  \/ s.custom_unit = "weeks" /\ s.custom_interval \in 1..52
  \/ s.custom_unit = "months" /\ s.custom_interval \in 1..12

\* C17: a custom schedule is accepted only when its interval lies in the
\* range of its unit (days 1..365, weeks 1..52, months 1..12): a create or
\* edit request carrying any other custom schedule stores nothing and leaves
\* the armed triggers as they were.
C17_CustomValidated ==
  [][\A p \in MainProcs, s \in ScheduleInputs :
       (/\ s.schedule_type = "custom"
        /\ ~InRange(s)
        /\ \/ AddRepository(p, s)
           \/ \E r \in Repos, a \in BOOLEAN : EditRepository(p, r, s, a))
       => (repos' = repos /\ jobs' = jobs)]_vars


\* The process is down after it died in the middle of a pipeline run of
\* repository r, while the clock can still advance and backup_job has room.
CrashedMidRun(r) ==
  /\ \E p \in MainProcs : ~up[p]
  /\ \E j \in JobIds : ledger[j].repository_id = r /\ ledger[j].status = "running"
  /\ ticks < MaxTicks
  /\ Len(ledger) < MaxJobs

\* C11: the lock of a repository is held only by an invocation between its
\* flock and its unlock, so every return path and a crash leave it free; and
\* after a crash in the middle of a run and the restart, a later fire of the
\* repository's trigger is admitted and runs the pipeline.
C11_NeverWedged ==
  /\ [](\A p \in Procs, r \in Repos :
          sheld[p][r] => (up[p] /\ spc[p][r] \in {"run", "clone", "unlock"}))
  /\ \A r \in Repos :
       CrashedMidRun(r) ~> (\E p \in MainProcs : up[p] /\ spc[p][r] = "clone")

\* C11 witness: after a crash that left a row running and the restart that
\* failed it, the pipeline of the same repository runs again.
C11_Witness ==
  \E p \in MainProcs, r \in Repos :
     /\ crashes > 0
     /\ up[p]
     /\ spc[p][r] = "clone"
     /\ \E j \in JobIds :
          /\ ledger[j].repository_id = r
          /\ ledger[j].status = "failed"
          /\ ledger[j].error_message = RestartError


\* tnow as an instant.
ArmedAt == Instant(tnow.day, tnow.hour, tnow.minute)

\* Minutes between fire i and fire i + 1.
Gap(i) == Abs(fires[i + 1]) - Abs(fires[i])

\* C13: every fire of a custom schedule happens at the configured hour and
\* minute, for every hour 0..23 and minute 0..59; with interval 1 the fires
\* follow the fixed cadence of the unit (every day, every week, day 1 of
\* every month) at that hour and minute.
C13_CustomAtConfiguredTime ==
  tcfg.schedule_type = "custom" =>
    /\ \A i \in 1..Len(fires) :
         fires[i].hour = tcfg.custom_hour /\ fires[i].minute = tcfg.custom_minute
    /\ tcfg.custom_interval = 1 =>
         /\ tcfg.custom_unit = "days" => \A i \in 1..(Len(fires) - 1) : Gap(i) = 24 * 60
         /\ tcfg.custom_unit = "weeks" => \A i \in 1..(Len(fires) - 1) : Gap(i) = 7 * 24 * 60
         /\ tcfg.custom_unit = "months" =>
              \A i \in 1..Len(fires) : DayOfMonth(tnow, fires[i].day) = 1

\* C14: the fixed cadences fire at: hourly, minute 0 of every hour; daily,
\* 02:00 every day; weekly, Sunday 02:00 and no other weekday; monthly, day 1
\* at 02:00; manual, never.  A custom schedule of 1 week fires on Sunday.
C14_FixedCadences ==
  /\ tcfg.schedule_type = "hourly" =>
       /\ \A i \in 1..Len(fires) : fires[i].minute = 0
       /\ Len(fires) >= 1 => Abs(fires[1]) - Abs(ArmedAt) \in 1..60
       /\ \A i \in 1..(Len(fires) - 1) : Gap(i) = 60
  /\ tcfg.schedule_type = "daily" =>
       /\ \A i \in 1..Len(fires) : fires[i].hour = 2 /\ fires[i].minute = 0
       /\ \A i \in 1..(Len(fires) - 1) : Gap(i) = 24 * 60
  /\ tcfg.schedule_type = "weekly" =>
       \A i \in 1..Len(fires) :
          Weekday(fires[i].day) = 6 /\ fires[i].hour = 2 /\ fires[i].minute = 0
  /\ tcfg.schedule_type = "monthly" =>
       \A i \in 1..Len(fires) :
          DayOfMonth(tnow, fires[i].day) = 1 /\ fires[i].hour = 2 /\ fires[i].minute = 0
  /\ tcfg.schedule_type = "manual" => (trig.kind \in {"pending", "none"} /\ fires = <<>>)
  /\ (tcfg.schedule_type = "custom" /\ tcfg.custom_unit = "weeks" /\ tcfg.custom_interval = 1) =>
       \A i \in 1..Len(fires) : Weekday(fires[i].day) = 6

\* C15: for a custom schedule with interval k > 1 the first fire is at the
\* anchor and consecutive fires are k units apart: k days, k weeks, or 4 * k
\* weeks for the unit months.
C15_IntervalSpacing ==
  (tcfg.schedule_type = "custom" /\ tcfg.custom_interval > 1 /\ trig # Pending) =>
    /\ trig.kind = "interval"
    /\ Len(fires) >= 1 => fires[1] = trig.start_date
    /\ \A i \in 1..(Len(fires) - 1) :
         Gap(i) = tcfg.custom_interval * 24 * 60 *
                    (CASE tcfg.custom_unit = "days" -> 1
                       [] tcfg.custom_unit = "weeks" -> 7
                       [] tcfg.custom_unit = "months" -> 28)

\* C15 witness: a custom schedule of 2 months has fired twice.
C15_Witness ==
  /\ tcfg.schedule_type = "custom" /\ tcfg.custom_unit = "months"
  /\ tcfg.custom_interval = 2
  /\ Len(fires) = 2

\* C16: for a custom schedule with interval > 1 the anchor computed when the
\* trigger is armed, and so the first fire, is strictly later than the
\* arming instant, for every unit and instant.
C16_AnchorInFuture ==
  (tcfg.schedule_type = "custom" /\ tcfg.custom_interval > 1 /\ trig # Pending) =>
    /\ trig.kind = "interval"
    /\ Abs(trig.start_date) > Abs(ArmedAt)
    /\ Len(fires) >= 1 => Abs(fires[1]) > Abs(ArmedAt)

\* C16 witness: the trigger was armed at exactly the configured time of day,
\* and the anchor is the same time on the next day.
C16_Witness ==
  /\ tcfg.schedule_type = "custom" /\ tcfg.custom_unit = "days"
  /\ tcfg.custom_interval > 1
  /\ tcfg.custom_hour = tnow.hour /\ tcfg.custom_minute = tnow.minute
  /\ trig.kind = "interval"
  /\ trig.start_date = Instant(tnow.day + 1, tnow.hour, tnow.minute)
  /\ Len(fires) >= 1

\* The run got through _cleanup_old_backups.
Swept == ppc = "record" \/ (ppc \in {"finally", "done"} /\ pjob.status = "completed")

\* The archives of the repository's format the sweep found.
Found == Listed(archives, prun.backup_format) \cup premoved

\* Those of them with at least n newer ones.
Oldest(n) == {a \in Found : Cardinality({b \in Found : b.mtime > a.mtime}) >= n}

Packaged == prun.fault = "none" /\ prun.backup_format \in Formats

\* C19: a run in which clone and packaging succeed ends with its row
\* completed, a non-null archive path with the extension of the format, a
\* recorded size, completed_at set and last_backup updated; for zip and an
\* empty repository the recorded size is greater than 0.
C19_SuccessRecorded ==
  (ppc = "done" /\ Packaged) =>
    /\ pjob.status = "completed"
    /\ pjob.backup_path # NoPath
    /\ pjob.backup_path.ext = Extension(prun.backup_format)
    /\ pjob.file_size # NoValue
    /\ pjob.completed_at = RunTime
    /\ plast = RunTime
    /\ (prun.backup_format = "zip" /\ prun.content = 0) => pjob.file_size > 0

\* C20: a run in which allocating the temporary directory, the clone (exit
\* code, timeout) or packaging fails ends with its row failed, completed_at
\* set and the failure message as error detail, last_backup as it was, and
\* at most one clone attempt.
C20_FailureRecorded ==
  (ppc = "done" /\ ~Packaged) =>
    /\ pjob.status = "failed"
    /\ pjob.completed_at = RunTime
    /\ pjob.error_message = Raised(prun)
    /\ pjob.backup_path = NoPath
    /\ plast = prun.last_backup
    /\ pclones <= 1
    /\ prun.fault \in {"clone_exit", "clone_timeout"} => pclones = 1

\* C20 witness: the clone of a repository backed up before timed out and the
\* run is over.
C20_Witness ==
  /\ ppc = "done"
  /\ prun.fault = "clone_timeout"
  /\ prun.last_backup = 0
  /\ pjob.status = "failed"
  /\ pclones = 1

\* C21: when backup_repository returns, after a success and after every
\* failure, the temporary clone directory it created does not exist, unless
\* its removal fails.
C21_TempRemoved ==
  (ppc = "done" /\ ~prun.rmfail) => ~ptemp

\* C21 witness: packaging failed after the temporary directory was created
\* and cloned into; the call has returned and the directory is gone.
C21_Witness ==
  /\ ppc = "done"
  /\ prun.fault = "package" /\ prun.backup_format \in Formats
  /\ pclones = 1
  /\ pjob.status = "failed"
  /\ ~prun.rmfail /\ ~ptemp

\* C22: no failure of the directory setup, the clone, packaging, the
\* retention sweep or the removal of the temporary directory leaves
\* backup_repository as an exception: the call goes on to the update of its
\* row, so a call that inserted its row returns with the row completed or
\* failed, never running.
C22_EndsTerminal ==
  /\ [](ppc = "done" => pjob.status \in {"completed", "failed"})
  /\ [](ppc = "except" => (perr = Raised(prun) /\ perr # ""))
  /\ (pjob.status = "running") ~> (ppc = "done" /\ pjob.status \in {"completed", "failed"})

\* C22 witness: the sweep raised and the temporary directory could not be
\* removed; the call has returned with its row failed.
C22_Witness ==
  /\ ppc = "done"
  /\ prun.fault = "sweep" /\ prun.rmfail /\ ptemp
  /\ pjob.status = "failed"

\* C29: the row is in the ledger with status running and started_at set
\* before the temporary directory exists and before the clone starts, and it
\* stays running through the clone, packaging and the sweep.
C29_RowBeforeWork ==
  /\ (ptemp \/ pclones > 0 \/ pnew # NoPath) =>
        (pjob.status # "none" /\ pjob.started_at = RunTime)
  /\ ppc \in {"tempdir", "clone", "package", "sweep", "record"} =>
        (pjob.status = "running" /\ pjob.started_at = RunTime)

\* C29 witness: the temporary directory exists, the clone is about to start
\* and the row is running.
C29_Witness ==
  /\ ppc = "clone" /\ ptemp /\ pclones = 0
  /\ pjob.status = "running" /\ pjob.started_at = RunTime

\* The run meets the unsupported format: nothing fails before _create_backup.
MeetsFormat ==
  /\ prun.backup_format \notin Formats
  /\ prun.fault \notin {"tempdir", "clone_exit", "clone_timeout"}

C27_CleanupIdempotent ==
  [][tcalls' = tcalls + 1 =>
       /\ ~traised'
       /\ texists' = texists
       /\ (tdirs = {} \/ ~texists) => tdirs' = tdirs
       /\ tcalls >= 1 => tdirs' = tdirs]_vars

\* C27 witness: after two calls a directory is left whose contents the first
\* call removed and which cannot be removed itself.
C27_Witness ==
  /\ tcalls = 2
  /\ \E d \in tdirs : d.removal = "contents" /\ d.empty /\ ~d.old
  /\ Cardinality(tdirs) = 1

\* C24 as stated: a row leaves the ledger only when it is completed or failed
\* and was created more than 7 days before; no step removes a pending or
\* running row, and deleting a repository removes none.
C24_OnlyPruned ==
  [][\A j \in 1..Len(ledger) :
       (ledger[j].status # "deleted" /\ ledger'[j].status = "deleted") =>
          /\ ledger[j].status \in {"completed", "failed"}
          /\ ledger[j].created_at < clock - PruneMinutes]_vars

\* The rows of the repository of row j, row j among them, that were created
\* within the last hour.
RecentOf(L, j) ==
  {k \in 1..Len(L) :
     /\ L[k].status # "deleted"
     /\ L[k].repository_id = L[j].repository_id
     /\ L[k].created_at > clock - DedupMinutes}

\* C25 as stated: when startup initialization finishes, of the rows of one
\* repository created within the last hour, when there are more than one, the
\* earliest is as it was and every other one is failed with the duplicate
\* cleanup message.
C25_StartupDedup ==
  [][\A p \in MainProcs :
       StartupStep(p) =>
         \A j \in 1..Len(ledger) :
            (j \in RecentOf(ledger, j) /\ Cardinality(RecentOf(ledger, j)) > 1) =>
               IF IsFirstRecent(ledger, j)
               THEN ledger'[j] = ledger[j]
               ELSE /\ ledger'[j].status = "failed"
                    /\ ledger'[j].error_message = DuplicateError]_vars

\* The pipeline executions in progress in process p: runs of
\* backup_repository on the scheduler's pool threads and on request threads.
InProgress(p) ==
  Cardinality({r \in Repos : spc[p][r] = "clone"})
    + Cardinality({k \in Req : rpc[k] = "clone" /\ rproc[k] = p})

\* C23 as stated: at most MaxWorkers pipeline executions are in progress in
\* one process, scheduled and manual ones counted together.
C23_PoolBound == \A p \in Procs : InProgress(p) <= MaxWorkers

\* The step is the read of repository r at the head of a scheduled
\* invocation in process p.
ReadStep(p, r) == spc[p][r] = "start" /\ spc'[p][r] # "start" /\ up'[p]

\* C26: a scheduled invocation reads the repository by id when it runs and
\* passes what it read to the pipeline: the settings as stored at that
\* moment, edits made since the job was armed included; when the repository
\* is gone or inactive the invocation ends, no run starts and no row is
\* added.  Every invocation past its read holds what it read.
C26_FreshRead ==
  /\ [][\A p \in MainProcs, r \in Repos :
          ReadStep(p, r) =>
            IF repos[r].exists /\ repos[r].is_active
            THEN /\ sused'[p][r] = settings[r]
                 /\ spc'[p][r] = "reap"
            ELSE /\ spc'[p][r] = "idle"
                 /\ ledger' = ledger
                 /\ sjob'[p][r] = 0]_vars
  /\ [][\A p \in MainProcs, r \in Repos :
          (spc[p][r] = "run" /\ spc'[p][r] = "clone") =>
             sused[p][r] \in Settings]_vars

\* C26 witness: an invocation is past its read of a repository whose settings
\* were edited after the job was armed, and holds the edited settings.
C26_Witness ==
  \E p \in MainProcs, r \in Repos :
     /\ spc[p][r] \in {"reap", "check", "open", "flock", "run", "clone"}
     /\ sclosure[p][r] \in Settings
     /\ settings[r] # sclosure[p][r]
     /\ sused[p][r] = settings[r]

\* C28: in one process the job store holds at most one job backup_<id> for a
\* repository, whatever the interleaving of the calls of schedule_backup_job,
\* of the removals by edits and deletions and of the clearing at startup.
C28_OneTrigger == astore <= 1

\* C28 witness: two threads have both passed the test-and-set and the second
\* look-up and have both called add_job; the store holds one job.
C28_Witness ==
  /\ \A t \in ArmThreads : apc[t] = "verify"
  /\ astore = 1
\* The sequence part occurs in whole as consecutive pieces.
Contains(whole, part) ==
  \E i \in 1..Len(whole) :
     i + Len(part) - 1 <= Len(whole) /\ SubSeq(whole, i, i + Len(part) - 1) = part

\* The token is None, empty or made of blanks.
BlankToken == ~ctoken.isset \/ \A i \in 1..Len(ctoken.chars) : ctoken.chars[i] = " "

\* C31: the clone URL carries the token when the token is not blank and the
\* stored URL starts with https://github.com/, and only then; in every other
\* case the clone URL is the stored URL.
C31_CloneUrl ==
  cclone # NoUrl =>
    IF ~BlankToken /\ Len(curl) >= 1 /\ curl[1] = GitHubPrefix
    THEN Contains(cclone, ctoken.chars)
    ELSE cclone = curl /\ (ctoken.chars # <<>> => ~Contains(cclone, ctoken.chars))

\* C31 witness: a token of blanks only, with a URL that starts with the
\* prefix, was left out of the clone URL.
C31_Witness ==
  /\ cclone # NoUrl
  /\ ctoken.isset /\ ctoken.chars = <<" ", " ">>
  /\ Len(curl) = MaxUrlLen /\ curl[1] = GitHubPrefix
  /\ cclone = curl
\* Thread t is inside a call of schedule_backup_job, past the test-and-set.
InCall(t) == apc[t] \in {"get", "remove", "discard", "recheck", "add", "verify"}

\* C32 as stated: backup_<id> is in _scheduled_jobs only while a call of
\* schedule_backup_job for the repository is in progress.
C32_RegistryReleased == areg => \E t \in ArmThreads : InCall(t)
\* C33 as stated: when a run has ended with its row failed, the backup
\* directory holds no entry the run wrote, whole or partial, and the run has
\* removed none: the entries the sweep counts are those of before the run.
C33_FailedLeavesNothing ==
  (ppc = "done" /\ pjob.status = "failed") =>
     /\ premoved = {}
     /\ \A a \in archives : a.mtime < RunTime
\* C34 as stated: when a run has ended with its row completed, the entry at
\* the recorded path is in the backup directory and the recorded size is its
\* size, whatever the retention count.
C34_OwnArchiveKept ==
  (ppc = "done" /\ pjob.status = "completed") =>
     /\ pjob.backup_path = Path(RunTime, prun.backup_format)
     /\ \E a \in archives :
           /\ a.mtime = RunTime /\ a.format = prun.backup_format
           /\ pjob.file_size = a.size
\* Row j is running with started_at more than 2 hours old.
TwoHoursOld(j) ==
  ledger[j].status = "running" /\ ledger[j].started_at + StuckMinutes < clock

\* C35 as stated: the startup pass and the pass at a trigger fire leave every
\* row as it is that is not running with started_at more than 2 hours old.
C35_ReaperFrame ==
  [][\A p \in MainProcs :
       (StartupStep(p) \/ \E r \in Repos : spc[p][r] = "reap" /\ spc'[p][r] = "check") =>
          \A j \in JobIds : ~TwoHoursOld(j) => ledger'[j] = ledger[j]]_vars
\* C36 as stated: no two rows of one repository written by scheduled
\* invocations have started_at less than 2 minutes apart.
C36_NoNearDuplicates ==
  \A i, j \in JobIds :
     (/\ i < j
      /\ ledger[i].status # "deleted" /\ ledger[j].status # "deleted"
      /\ ledger[i].repository_id = ledger[j].repository_id)
     => ledger[j].started_at - ledger[i].started_at >= RecentMinutes
\* C37 as stated: two repositories never have the same backup directory,
\* every entry of a backup directory was written by the run of the
\* repository whose directory it is, and a sweep removes only entries
\* written for the repository it runs for.
C37_OneWriter ==
  /\ \A r, q \in DirRepos :
        r # q => RepoBackupDir(drepos[r]) # RepoBackupDir(drepos[q])
  /\ \A f \in dfiles : \A r \in DirRepos :
        f.dir = RepoBackupDir(drepos[r]) => f.owner = r
  /\ \A x \in dremoved : x.file.owner = x.by
\* C38 as stated: a call of _cleanup_temp_directories removes no completed
\* archive and no working directory of an invocation that is in flight, and
\* takes nothing out of them.
C38_OnlyLeftovers ==
  [][\A d \in tdirs : d.role \in {"archive", "inflight"} => d \in tdirs']_vars
\* C39: startup initialization leaves every row that is completed or failed
\* as it is, whatever its place among the rows of its repository created
\* within the last hour; a row the same startup has failed as left running
\* keeps the restart message.
C39_TerminalKept ==
  [][\A p \in MainProcs :
       StartupStep(p) =>
         \A j \in JobIds :
            /\ ledger[j].status \in {"completed", "failed"} => ledger'[j] = ledger[j]
            /\ ledger[j].status = "running" =>
                  /\ ledger'[j].status = "failed"
                  /\ ledger'[j].error_message = RestartError]_vars

\* C39 witness: the process has started; of two rows of one repository
\* created within the last hour, the later one was completed before the
\* start and is still completed, the earlier one was failed by the start.
C39_Witness ==
  \E p \in MainProcs, i, j \in JobIds :
     /\ up[p]
     /\ i < j /\ ledger[i].repository_id = ledger[j].repository_id
     /\ ledger[i].error_message = RestartError
     /\ ledger[j].status = "completed"
     /\ ledger[j].completed_at < ledger[i].completed_at
     /\ ledger[j].created_at > clock - DedupMinutes
     /\ ~IsFirstRecent(ledger, j)

====
